---------------------------- MODULE Spec2Model ----------------------------
(***************************************************************************)
(* State-machine model of the BoomBuddies client presentation engine:      *)
(* the Game class (scene orchestrator, entity presenters, camera, screen   *)
(* shake, HUD, input router) together with the coordinate mapping of       *)
(* constants.ts.                                                           *)
(*                                                                         *)
(* Numeric conventions.  JavaScript numbers are doubles; the model uses    *)
(* integers in fixed point:                                                *)
(*   - wall-clock times are integer milliseconds (as Date.now() returns);  *)
(*   - pixel coordinates are whole pixels, an easing increment is          *)
(*     truncated toward zero;                                              *)
(*   - wrapBouncePhase is in hundredths (0.01 -> 1, 0.08 -> 8, 2 -> 200);  *)
(*   - scales and alpha are in thousandths (1.0 -> 1000);                  *)
(*   - shakeIntensity is in hundredths (0.5 -> 50, 12 -> 1200);            *)
(*   - sin(pi*t) is Bhaskara's rational approximation, in thousandths.     *)
(* An absent (null / undefined) value of an optional field is the empty    *)
(* tuple <<>>, a present value v is the one-element tuple <<v>>.           *)
(***************************************************************************)
EXTENDS Integers, Sequences, FiniteSets, TLC

\* ------------------------------------------------------------------------
\* Program constants (constants.ts and literals of the Game class)
\* ------------------------------------------------------------------------
GRID_WIDTH == 19
GRID_HEIGHT == 15
TILE_SIZE == 40
BOMB_TIMER == 3000
EXPLOSION_DURATION == 500
MIN_PLAYERS == 2

WAITING == "lobby"
COUNTDOWN == "countdown"
PLAYING == "playing"
ENDED == "ended"
GAME_PHASE == {WAITING, COUNTDOWN, PLAYING, ENDED}

LAST_MAN_STANDING == 0
DEATHMATCH == 1

DIR_UP == 1
DIR_DOWN == 2
DIR_LEFT == 3
DIR_RIGHT == 4

moveRepeatDelay == 120
shakeDecay == 85
shakeEpsilon == 50
maxDistance == 6
maxShake == 1200
wrapStart == 1
wrapStep == 8
wrapTeleportEnd == 108
bounceStep == 16
bouncePeriod == 150
bounceHeight == 20
deathDuration == 1500
goFlashDuration == 500
animDuration == 300
fallbackWidth == 800
fallbackHeight == 600

\* ------------------------------------------------------------------------
\* Bounds of the model
\* ------------------------------------------------------------------------
\* The wall clock starts at StartTime; each specification stops advancing
\* it after its horizon, in ms.
InputHorizon == 180
DeathHorizon == 2100
SyncHorizon == 600
HudHorizon == 600
TwinHorizon == 32
\* Number of init() calls made on the one Game.
MaxInitCalls == 2

\* Date.now() at construction: any value larger than every duration the
\* code compares against (Date.now() is about 1.7e12 in practice).
StartTime == 2000
\* window.innerWidth / innerHeight, the fallback when the container reports 0.
innerWidth == 1024
innerHeight == 768

NoId == "null"
NoDir == "null"

\* ------------------------------------------------------------------------
\* Arithmetic helpers
\* ------------------------------------------------------------------------
Abs(a) == IF a < 0 THEN -a ELSE a
Min(a, b) == IF a < b THEN a ELSE b
Max(a, b) == IF a > b THEN a ELSE b

\* Division truncating toward zero.
TruncDiv(a, b) == IF a >= 0 THEN a \div b ELSE -((-a) \div b)

\* Math.ceil(a / b) for b > 0.
CeilDiv(a, b) == -((-a) \div b)

\* lerp(a, b, t) = a + (b - a) * t with t = pct / 100.
lerp(a, b, pct) == a + TruncDiv((b - a) * pct, 100)

\* sin(pi * n / d) in thousandths for 0 <= n <= d.
SinPiMilli(n, d) == (16000 * n * (d - n)) \div (5 * d * d - 4 * n * (d - n))

\* floor(100 * sqrt(n)) for the squared grid distances below the cutoff.
SqrtCenti[n \in 0..(maxDistance * maxDistance)] ==
  CHOOSE r \in 0..(100 * maxDistance) :
    r * r <= 10000 * n /\ (r + 1) * (r + 1) > 10000 * n

\* gridToPixel: centre of the cell.
gridToPixel(gridX, gridY) ==
  [x |-> gridX * TILE_SIZE + TILE_SIZE \div 2,
   y |-> gridY * TILE_SIZE + TILE_SIZE \div 2]

Range(s) == {s[i] : i \in 1..Len(s)}

Present(opt) == opt # <<>>
Get(opt) == opt[1]

\* ------------------------------------------------------------------------
\* State
\* ------------------------------------------------------------------------
VARIABLES
  now,                \* Date.now(), ms
  clientWidth,        \* appContainer.clientWidth (the host lays the element out)
  clientHeight,       \* appContainer.clientHeight
  initCalls,          \* init() calls made so far
  pendingInit,        \* the init() calls awaiting app.init(): their captured sizes
  surface,            \* <<>> or <<[width, height]>>: the render surface created
  tickers,            \* callbacks registered on app.ticker
  appDestroyed,       \* app.destroy() has run
  initialized,
  callbacks,          \* TRUE once setCallbacks() was given the four callbacks
  playerSprites,      \* Map socketId -> PlayerSprite
  bombSprites,        \* Map id -> BombSprite
  explosionSprites,   \* Map id -> ExplosionSprite
  tiles,              \* tileMap.tiles
  cameraX, cameraY,
  worldX, worldY,     \* worldContainer.x / .y
  mySocketId,
  currentLobby,       \* <<>> or <<lobby>>
  statusText,         \* statusText.text, as the tuple of its parts
  statusTextX,        \* statusText.x
  countdownText,      \* [visible, text, fill, alpha, scale, x, y]
  keysHeld,
  lastMoveTime,
  shakeIntensity,
  globalTime,
  lastCountdownValue,
  countdownAnimStart,
  ev,                 \* history: what the last operation did
  hold,               \* history: onMove dispatches of the current key hold
  twin                \* <<>>, or <<the time-based effects of the same Game in
                      \* a second run that differs in its frame ticks only>>

gameVars == <<initCalls, pendingInit, surface, tickers, appDestroyed, initialized, callbacks>>
entityVars == <<playerSprites, bombSprites, explosionSprites, tiles>>
cameraVars == <<cameraX, cameraY, worldX, worldY>>
lobbyVars == <<mySocketId, currentLobby>>
hudVars == <<statusText, statusTextX, countdownText, lastCountdownValue,
             countdownAnimStart>>
inputVars == <<keysHeld, lastMoveTime>>
envVars == <<now, clientWidth, clientHeight>>
vars == <<envVars, gameVars, entityVars, cameraVars, lobbyVars, hudVars,
          inputVars, shakeIntensity, globalTime, ev, hold, twin>>

EmptyMap == [id \in {} |-> 0]
Put(m, k, v) == [i \in DOMAIN m \cup {k} |-> IF i = k THEN v ELSE m[i]]
Restrict(m, keep) == [i \in DOMAIN m \cap keep |-> m[i]]

\* The history record of an operation that did nothing observable.  `since`
\* maps every player whose latest observation was alive = false to the
\* time of the first observation of that unbroken run.  `threw` says that
\* the operation ended in an exception, `logged` that it called
\* console.error, `container` is the container size a completed init() had
\* read, `args` are the arguments of an updateTile, the key code of a
\* key-down or the snapshot of an updateFromLobby that came while an init()
\* call was awaiting the render surface, and `changedCells` the
\* <<column, row>> of every tile it changed.  `seq` counts how
\* many snapshots of the start-of-game sequence (see startSequence) the
\* latest reconciliations have delivered in order, `goAt` is the time the
\* fourth of them was reconciled.  `shown` is <<the value (Math.ceil of
\* the countdown in seconds) of the latest countdown snapshot of the current
\* match>>, <<>> when the match has had none: a waiting or ended snapshot
\* ends a match.  `cut` counts the init() calls that were awaiting the
\* render surface when destroy() was last called and have not resumed since.
NoOut == [move |-> <<>>, bomb |-> 0, throw |-> 0, start |-> 0]
History(name, since) ==
  [op |-> name, applied |-> FALSE, out |-> NoOut,
   createdPlayers |-> {}, createdBombs |-> {}, createdExplosions |-> {},
   idleBombs |-> {}, prevExplosions |-> {},
   destroyedExplosions |-> EmptyMap, removedAges |-> {},
   prevShake |-> 0, camTarget |-> <<>>, deadSince |-> since,
   seq |-> 0, goAt |-> 0, threw |-> FALSE, logged |-> FALSE,
   container |-> <<>>, args |-> <<>>, changedCells |-> {}, shown |-> <<>>,
   cut |-> 0]
Quiet(name) ==
  [History(name, ev.deadSince) EXCEPT !.seq = ev.seq, !.goAt = ev.goAt,
                                      !.shown = ev.shown, !.cut = ev.cut]

\* The runs of alive = false observations after one more players list.
deadRuns(since, players, t) ==
  [id \in {players[i].socketId : i \in {j \in 1..Len(players) : ~players[j].alive}}
     |-> IF id \in DOMAIN since THEN since[id] ELSE t]
\* The history of a key hold: the time of its latest onMove dispatch, the
\* gap between its latest two, and for every key that is still down the
\* direction its key-down dispatched.
NoHold == [at |-> <<>>, gap |-> <<>>, intent |-> EmptyMap]

\* The time-based effects of a Game as constructed.
secondRun ==
  [bombSprites |-> EmptyMap, explosionSprites |-> EmptyMap,
   shakeIntensity |-> 0, globalTime |-> 0]

\* The state after `new Game()`, the container laid out by the host at one
\* of the given sizes; `second` is <<>>, or <<secondRun>> to follow a second
\* run of the Game next to the first.
ConstructWith(widths, heights, second) ==
  /\ now = StartTime
  /\ clientWidth \in widths /\ clientHeight \in heights
  /\ initCalls = 0 /\ pendingInit = <<>> /\ surface = <<>> /\ tickers = 0
  /\ appDestroyed = FALSE /\ initialized = FALSE /\ callbacks = FALSE
  /\ playerSprites = EmptyMap /\ bombSprites = EmptyMap
  /\ explosionSprites = EmptyMap
  /\ tiles = <<>>
  /\ cameraX = 0 /\ cameraY = 0 /\ worldX = 0 /\ worldY = 0
  /\ mySocketId = NoId /\ currentLobby = <<>>
  /\ statusText = <<>> /\ statusTextX = 0
  /\ countdownText = [visible |-> FALSE, text |-> <<>>, fill |-> "none",
                      alpha |-> 1000, scale |-> 1000, x |-> 0, y |-> 0]
  /\ keysHeld = {}
  /\ lastMoveTime = 0
  /\ shakeIntensity = 0
  /\ globalTime = 0
  /\ lastCountdownValue = 0 /\ countdownAnimStart = 0
  /\ ev = History("new", EmptyMap)
  /\ hold = NoHold
  /\ twin = second

Construct(widths, heights) == ConstructWith(widths, heights, <<>>)

\* ------------------------------------------------------------------------
\* Environment: the wall clock
\* ------------------------------------------------------------------------
Advance(dt, horizon) ==
  /\ now + dt <= StartTime + horizon
  /\ now' = now + dt
  /\ ev' = Quiet("advance")
  /\ UNCHANGED <<clientWidth, clientHeight, gameVars, entityVars, cameraVars,
                 lobbyVars, twin, hudVars, inputVars, shakeIntensity, globalTime,
                 hold>>

\* ------------------------------------------------------------------------
\* Lifecycle: setCallbacks, init (two steps around its await), destroy
\* ------------------------------------------------------------------------
SetCallbacks ==
  /\ ~callbacks
  /\ callbacks' = TRUE
  /\ ev' = Quiet("setCallbacks")
  /\ UNCHANGED <<envVars, initCalls, pendingInit, surface, tickers,
                 appDestroyed, initialized, entityVars, cameraVars, lobbyVars, twin,
                 hudVars, inputVars, shakeIntensity, globalTime, hold>>

\* init() that never returns early.
initReturnsEarly_Never == FALSE

\* The guard of init().
initReturnsEarly == initialized

\* The size init() asks for without its fallbacks.
initOptions_NoFallback(width, height) ==
  [clientWidth |-> width, clientHeight |-> height,
   width |-> width, height |-> height]

\* The container size init() reads and the size it asks app.init() for.
initOptions(width, height) ==
  [clientWidth |-> width, clientHeight |-> height,
   width |-> IF width # 0 THEN width ELSE fallbackWidth,
   height |-> IF height # 0 THEN height ELSE fallbackHeight]

\* init() up to `await this.app.init(...)`.
InitCall ==
  /\ initCalls < MaxInitCalls
  /\ initCalls' = initCalls + 1
  /\ pendingInit' =
       IF initReturnsEarly THEN pendingInit
       ELSE Append(pendingInit, initOptions(clientWidth, clientHeight))
  /\ ev' = [Quiet("init") EXCEPT
              !.applied = ~initReturnsEarly,
              !.logged = ~initReturnsEarly /\ (clientWidth = 0 \/ clientHeight = 0)]
  /\ UNCHANGED <<envVars, surface, tickers, appDestroyed, initialized, callbacks,
                 entityVars, cameraVars, lobbyVars, twin, hudVars, inputVars,
                 shakeIntensity, globalTime, hold>>

\* this.appContainer?.clientWidth || window.innerWidth, and the same for
\* the height.
containerWidth == IF clientWidth # 0 THEN clientWidth ELSE innerWidth
containerHeight == IF clientHeight # 0 THEN clientHeight ELSE innerHeight

\* createUI(): fresh status and countdown texts.
createUIStatus == <<"Waiting for players...">>
createUICountdown ==
  [visible |-> FALSE, text |-> <<>>, fill |-> "ffff00", alpha |-> 1000,
   scale |-> 1000, x |-> containerWidth \div 2, y |-> containerHeight \div 2]

\* init() after the await: canvas, containers, UI, ticker, initialized;
\* nothing in it looks at what happened during the await.  On an
\* application that destroy() has already torn down, the first use of the
\* application throws and the rest of init() does not run.
InitResume ==
  /\ pendingInit # <<>>
  /\ pendingInit' = Tail(pendingInit)
  /\ IF appDestroyed
       THEN /\ ev' = [Quiet("initResume") EXCEPT
                        !.threw = TRUE,
                        !.cut = IF ev.cut > 0 THEN ev.cut - 1 ELSE 0]
            /\ UNCHANGED <<surface, tickers, initialized, hudVars>>
       ELSE /\ surface' = <<[width |-> Head(pendingInit).width,
                              height |-> Head(pendingInit).height]>>
            /\ statusText' = createUIStatus
            /\ statusTextX' = containerWidth \div 2
            /\ countdownText' = createUICountdown
            /\ tickers' = tickers + 1
            /\ initialized' = TRUE
            /\ ev' = [Quiet("initResume") EXCEPT
                        !.applied = TRUE,
                        !.cut = IF ev.cut > 0 THEN ev.cut - 1 ELSE 0,
                        !.container = <<[width |-> Head(pendingInit).clientWidth,
                                         height |-> Head(pendingInit).clientHeight]>>]
            /\ UNCHANGED <<lastCountdownValue, countdownAnimStart>>
  /\ UNCHANGED <<envVars, initCalls, appDestroyed, callbacks, entityVars,
                 cameraVars, lobbyVars, twin, inputVars, shakeIntensity, globalTime,
                 hold>>

\* destroy().  Application.destroy() tears down the stage and the
\* renderer and clears its references to them: on an application whose
\* init() has not resolved yet, or that was destroyed before, it
\* dereferences a missing renderer or stage and throws, so that destroy()
\* ends in that exception with its last assignment not made.  How far the
\* teardown of an application whose init() has not resolved got before it
\* threw is the library's choice: it has torn the stage down, or it has
\* left the application as it was, and then the pending app.init() still
\* resolves into a usable application.
Destroy ==
  /\ keysHeld' = {}
  /\ playerSprites' = EmptyMap
  /\ bombSprites' = EmptyMap
  /\ explosionSprites' = EmptyMap
  /\ appDestroyed' \in IF appDestroyed \/ Present(surface) THEN {TRUE} ELSE BOOLEAN
  /\ initialized' = IF appDestroyed \/ surface = <<>> THEN initialized ELSE FALSE
  /\ ev' = [History("destroy", EmptyMap) EXCEPT
              !.applied = TRUE,
              !.threw = appDestroyed \/ surface = <<>>,
              !.cut = Len(pendingInit),
              !.prevExplosions = DOMAIN explosionSprites,
              !.destroyedExplosions = [id \in DOMAIN explosionSprites |-> 1]]
  /\ hold' = NoHold
  /\ twin' = IF Present(twin)
               THEN <<[Get(twin) EXCEPT !.bombSprites = EmptyMap,
                                        !.explosionSprites = EmptyMap]>>
               ELSE twin
  /\ UNCHANGED <<envVars, initCalls, pendingInit, surface, tickers, callbacks,
                 tiles, cameraVars, lobbyVars, hudVars, lastMoveTime,
                 shakeIntensity, globalTime>>

\* resize() without its guard.
resizeGate_Open == TRUE

\* The guard of resize().
resizeGate == initialized

resize(width, height) ==
  IF ~resizeGate
    THEN /\ ev' = Quiet("resize")
         /\ UNCHANGED <<envVars, gameVars, entityVars, cameraVars, lobbyVars, twin,
                        hudVars, inputVars, shakeIntensity, globalTime, hold>>
    ELSE /\ surface' = <<[width |-> width, height |-> height]>>
         /\ statusTextX' = width \div 2
         /\ countdownText' = [countdownText EXCEPT !.x = width \div 2,
                                                   !.y = height \div 2]
         /\ ev' = [Quiet("resize") EXCEPT !.applied = TRUE]
         /\ UNCHANGED <<envVars, initCalls, pendingInit, tickers, appDestroyed,
                        initialized, callbacks, entityVars, cameraVars,
                        lobbyVars, twin, statusText, lastCountdownValue,
                        countdownAnimStart, inputVars, shakeIntensity,
                        globalTime, hold>>

\* The window's resize event: the wrapper passes the container's size.
Resize == resize(clientWidth, clientHeight)

\* ------------------------------------------------------------------------
\* Tile layer
\* ------------------------------------------------------------------------
\* TileMap.updateTile: the tile array after the call (arrays are 0-based
\* in the code, sequences 1-based here).
updateTile(tileArr, gridX, gridY, tileType) ==
  LET index == gridY * GRID_WIDTH + gridX IN
  IF index >= 0 /\ index < Len(tileArr)
    THEN [tileArr EXCEPT ![index + 1] = tileType]
    ELSE tileArr

\* setTiles keeps the snapshot's own array, so a write to the tile array is
\* a write to the game data of the snapshot that delivered it.
sharedTiles(lobbyOpt, tileArr, next) ==
  IF /\ Present(lobbyOpt)
     /\ Present(Get(lobbyOpt).gameData)
     /\ Get(Get(lobbyOpt).gameData).tiles = <<tileArr>>
    THEN <<[Get(lobbyOpt) EXCEPT
              !.gameData = <<[Get(Get(lobbyOpt).gameData) EXCEPT
                                !.tiles = <<next>>]>>]>>
    ELSE lobbyOpt

UpdateTile(gridX, gridY, tileType) ==
  LET next == updateTile(tiles, gridX, gridY, tileType) IN
  /\ tiles' = next
  /\ currentLobby' = sharedTiles(currentLobby, tiles, next)
  /\ ev' = [Quiet("updateTile") EXCEPT
              !.applied = TRUE,
              !.args = <<gridX, gridY, tileType>>,
              !.changedCells =
                 {<<(i - 1) % GRID_WIDTH, (i - 1) \div GRID_WIDTH>> :
                    i \in {j \in 1..Len(tiles) : next[j] # tiles[j]}}]
  /\ UNCHANGED <<envVars, gameVars, playerSprites, bombSprites,
                 explosionSprites, cameraVars, mySocketId, twin, hudVars,
                 inputVars,
                 shakeIntensity, globalTime, hold>>

\* ------------------------------------------------------------------------
\* Player presenter
\* ------------------------------------------------------------------------
addPlayer(data) ==
  LET pos == gridToPixel(data.gridX, data.gridY) IN
  [x |-> pos.x, y |-> pos.y, targetX |-> pos.x, targetY |-> pos.y,
   data |-> data, deathTime |-> 0, lastX |-> pos.x, lastY |-> pos.y,
   movePhase |-> 0, deathProgress |-> 0]

updatePlayer(sprite, data, t, gt) ==
  LET wasDead == ~sprite.data.alive
      justDied == ~data.alive /\ ~wasDead
      pos == gridToPixel(data.gridX, data.gridY)
      moved == pos.x # sprite.targetX \/ pos.y # sprite.targetY
  IN [sprite EXCEPT
        !.deathTime = IF justDied THEN t ELSE @,
        !.lastX = IF moved THEN sprite.targetX ELSE @,
        !.lastY = IF moved THEN sprite.targetY ELSE @,
        !.movePhase = IF moved THEN gt ELSE @,
        !.data = data,
        !.targetX = pos.x,
        !.targetY = pos.y]

\* A removal loop that removes nothing.
removeAbsent_Keep(sprites, currentIds) == sprites

\* The removal loop shared by syncPlayers, syncBombs and syncExplosions:
\* every owned id that is not in the new list is removed.
removeAbsent(sprites, currentIds) == Restrict(sprites, currentIds)

\* The destroy() calls that loop makes on each owned sprite (removeExplosion
\* destroys the sprite it deletes).
destroyCalls(sprites, currentIds) ==
  [id \in DOMAIN sprites |-> IF id \in currentIds THEN 0 ELSE 1]

\* explosions.map(e => e.id) as a set.
idsOf(items) == {items[i].id : i \in 1..Len(items)}

RECURSIVE addOrUpdatePlayers(_, _, _, _, _)
addOrUpdatePlayers(sprites, players, i, t, gt) ==
  IF i > Len(players) THEN sprites
  ELSE LET player == players[i]
           next == IF player.socketId \in DOMAIN sprites
                     THEN updatePlayer(sprites[player.socketId], player, t, gt)
                     ELSE addPlayer(player)
       IN addOrUpdatePlayers(Put(sprites, player.socketId, next), players,
                             i + 1, t, gt)

\* syncPlayers without its removal loop.
syncPlayers_AddOnly(sprites, players, t, gt) ==
  addOrUpdatePlayers(sprites, players, 1, t, gt)

syncPlayers(sprites, players, t, gt) ==
  LET currentIds == {players[i].socketId : i \in 1..Len(players)} IN
  addOrUpdatePlayers(removeAbsent(sprites, currentIds), players, 1, t, gt)

\* ------------------------------------------------------------------------
\* Bomb presenter
\* ------------------------------------------------------------------------
\* addBomb placing the bomb at the corner of its cell.
addBomb_Corner(data) ==
  [x |-> data.gridX * TILE_SIZE, y |-> data.gridY * TILE_SIZE,
   scaleX |-> 1000, scaleY |-> 1000, pulsePhase |-> 0,
   targetX |-> data.gridX * TILE_SIZE, targetY |-> data.gridY * TILE_SIZE,
   data |-> data, bounceTime |-> 0, wrapBouncePhase |-> 0,
   wrapBounceDir |-> NoDir, prevTargetX |-> data.gridX * TILE_SIZE,
   prevTargetY |-> data.gridY * TILE_SIZE, bounceOffset |-> 0]

addBomb(data) ==
  LET pos == gridToPixel(data.gridX, data.gridY) IN
  [x |-> pos.x, y |-> pos.y, scaleX |-> 1000, scaleY |-> 1000,
   pulsePhase |-> 0, targetX |-> pos.x, targetY |-> pos.y, data |-> data,
   bounceTime |-> 0, wrapBouncePhase |-> 0, wrapBounceDir |-> NoDir,
   prevTargetX |-> pos.x, prevTargetY |-> pos.y, bounceOffset |-> 0]

wrapThreshold == TILE_SIZE * 5

\* The wrap detection of updateBomb: the axis of the bounce it starts, or
\* NoDir when it starts none.
\* Wrap detection that also fires at exactly the threshold.
detectWrap_AtThreshold(sprite, data, pos) ==
  IF data.isFlying /\ sprite.wrapBouncePhase = 0
    THEN IF Abs(sprite.targetX - pos.x) >= wrapThreshold THEN "x"
         ELSE IF Abs(sprite.targetY - pos.y) >= wrapThreshold THEN "y"
         ELSE NoDir
    ELSE NoDir

\* A wrap detection that does not look at the bounce in progress.
detectWrap_Restarting(sprite, data, pos) ==
  IF data.isFlying
    THEN IF Abs(sprite.targetX - pos.x) > wrapThreshold THEN "x"
         ELSE IF Abs(sprite.targetY - pos.y) > wrapThreshold THEN "y"
         ELSE NoDir
    ELSE NoDir

\* The axis of the wrap bounce updateBomb starts, NoDir when it starts none.
detectWrap(sprite, data, pos) ==
  IF data.isFlying /\ sprite.wrapBouncePhase = 0
    THEN IF Abs(sprite.targetX - pos.x) > wrapThreshold THEN "x"
         ELSE IF Abs(sprite.targetY - pos.y) > wrapThreshold THEN "y"
         ELSE NoDir
    ELSE NoDir

updateBomb(sprite, data) ==
  LET urgency == 1000 - (data.timer * 1000) \div BOMB_TIMER
      pos == gridToPixel(data.gridX, data.gridY)
      axis == detectWrap(sprite, data, pos)
  IN [sprite EXCEPT
        !.data = data,
        !.pulsePhase = urgency,
        !.wrapBouncePhase = IF axis # NoDir THEN wrapStart ELSE @,
        !.wrapBounceDir = IF axis # NoDir THEN axis ELSE @,
        !.prevTargetX = sprite.targetX,
        !.prevTargetY = sprite.targetY,
        !.targetX = pos.x,
        !.targetY = pos.y]

RECURSIVE addOrUpdateBombs(_, _, _)
addOrUpdateBombs(sprites, bombs, i) ==
  IF i > Len(bombs) THEN sprites
  ELSE LET bomb == bombs[i]
           next == IF bomb.id \in DOMAIN sprites
                     THEN updateBomb(sprites[bomb.id], bomb)
                     ELSE addBomb(bomb)
       IN addOrUpdateBombs(Put(sprites, bomb.id, next), bombs, i + 1)

syncBombs(sprites, bombs) ==
  LET currentIds == {bombs[i].id : i \in 1..Len(bombs)} IN
  addOrUpdateBombs(removeAbsent(sprites, currentIds), bombs, 1)

\* ------------------------------------------------------------------------
\* Explosion presenter and screen-shake trigger
\* ------------------------------------------------------------------------
\* (1 - distance / maxDistance) * 12 for a squared grid distance below the
\* cutoff.
shakeFor(d2) == maxShake - 2 * SqrtCenti[d2]

\* A shake trigger that stacks the new intensity on the current one.
triggerExplosionShake_Sum(shake, myId, players, explosionX, explosionY) ==
  IF myId = NoId \/ myId \notin DOMAIN players THEN shake
  ELSE LET dx == players[myId].data.gridX - explosionX
           dy == players[myId].data.gridY - explosionY
           d2 == dx * dx + dy * dy
       IN IF d2 < maxDistance * maxDistance
            THEN shake + shakeFor(d2)
            ELSE shake

triggerExplosionShake(shake, myId, players, explosionX, explosionY) ==
  IF myId = NoId \/ myId \notin DOMAIN players THEN shake
  ELSE LET dx == players[myId].data.gridX - explosionX
           dy == players[myId].data.gridY - explosionY
           d2 == dx * dx + dy * dy
       IN IF d2 < maxDistance * maxDistance
            THEN Max(shake, shakeFor(d2))
            ELSE shake

addExplosion(data, t) ==
  LET pos == gridToPixel(data.gridX, data.gridY) IN
  [x |-> pos.x, y |-> pos.y, createdAt |-> t, gridX |-> data.gridX,
   gridY |-> data.gridY]

\* The add loop of syncExplosions; st = [sprites, shake].
RECURSIVE addExplosions(_, _, _, _, _, _)
addExplosions(st, explosions, i, t, myId, players) ==
  IF i > Len(explosions) THEN st
  ELSE LET e == explosions[i] IN
       addExplosions(
         IF e.id \in DOMAIN st.sprites THEN st
         ELSE [sprites |-> Put(st.sprites, e.id, addExplosion(e, t)),
               shake |-> triggerExplosionShake(st.shake, myId, players,
                                               e.gridX, e.gridY)],
         explosions, i + 1, t, myId, players)

syncExplosions(sprites, shake, explosions, t, myId, players) ==
  LET currentIds == {explosions[i].id : i \in 1..Len(explosions)} IN
  addExplosions([sprites |-> removeAbsent(sprites, currentIds), shake |-> shake],
                explosions, 1, t, myId, players)

\* ------------------------------------------------------------------------
\* HUD / status overlay
\* ------------------------------------------------------------------------
countdownOf(lobby) ==
  IF Present(lobby.gameData) THEN Get(lobby.gameData).countdown ELSE 0

\* A countdown that is yellow at every value.
countdownFill_Yellow(countdownSecs) == "ffff44"

countdownFill(countdownSecs) ==
  IF countdownSecs = 1 THEN "ff4444"
  ELSE IF countdownSecs = 2 THEN "ffaa44"
  ELSE "ffff44"

playingStatus(lobby) ==
  IF Present(lobby.gameData) /\ Get(lobby.gameData).gameMode = DEATHMATCH
    THEN LET remaining == Get(lobby.gameData).timeRemaining
             secs == (remaining % 60000) \div 1000
         IN <<"Time: ", remaining \div 60000, ":", secs \div 10, secs % 10>>
    ELSE <<"Players alive: ",
           Cardinality({i \in 1..Len(lobby.players) : lobby.players[i].alive})>>

endedStatus(lobby) ==
  LET winners == IF Present(lobby.gameData)
                   THEN {i \in 1..Len(lobby.players) :
                           <<lobby.players[i].socketId>> = Get(lobby.gameData).winnerId}
                   ELSE {}
  IN IF winners = {} THEN <<"Game Over!">>
     ELSE <<lobby.players[CHOOSE i \in winners : \A j \in winners : i <= j].name,
            " wins!">>

\* hud = [statusText, countdownText, lastCountdownValue, countdownAnimStart]
updateGameStateUI(hud, lobby, t) ==
  CASE lobby.state = WAITING ->
         [hud EXCEPT
            !.statusText = <<"Waiting for players (", Len(lobby.players), "/",
                             MIN_PLAYERS, " min)...">>,
            !.countdownText.visible = FALSE,
            !.lastCountdownValue = 0]
    [] lobby.state = COUNTDOWN ->
         LET countdownSecs == CeilDiv(countdownOf(lobby), 1000)
             changed == countdownSecs # hud.lastCountdownValue
         IN [hud EXCEPT
               !.statusText = <<"Get Ready!">>,
               !.countdownText.visible = TRUE,
               !.lastCountdownValue = IF changed THEN countdownSecs ELSE @,
               !.countdownAnimStart = IF changed THEN t ELSE @,
               !.countdownText.text =
                  IF countdownSecs <= 0 THEN <<"GO!">> ELSE <<countdownSecs>>,
               !.countdownText.fill =
                  IF countdownSecs <= 0 THEN "44ff44"
                  ELSE countdownFill(countdownSecs)]
    [] lobby.state = PLAYING ->
         LET timeSinceStart == t - hud.countdownAnimStart
             flash == hud.lastCountdownValue = 0 /\ timeSinceStart < goFlashDuration
         IN [hud EXCEPT
               !.countdownText.visible = flash,
               !.countdownText.text = IF flash THEN <<"GO!">> ELSE @,
               !.countdownText.fill = IF flash THEN "44ff44" ELSE @,
               !.countdownText.alpha =
                  IF flash
                    THEN 1000 - (timeSinceStart * 1000) \div goFlashDuration
                    ELSE 1000,
               !.statusText = playingStatus(lobby)]
    [] lobby.state = ENDED ->
         [hud EXCEPT
            !.statusText = endedStatus(lobby),
            !.countdownText.visible = TRUE,
            !.countdownText.text = <<"GAME OVER">>,
            !.countdownText.fill = "ff6666",
            !.countdownText.alpha = 1000,
            !.lastCountdownValue = -1]
    [] OTHER -> hud

\* The scale-bounce of the countdown text: 1.5 -> 1.0 on a cubic ease-out.
animateCountdown(text, animStart, t) ==
  IF ~text.visible THEN text
  ELSE LET elapsed == t - animStart
           left == animDuration - elapsed
           \* 1 - progress, in hundredths
           rest == (left * 100) \div animDuration
       IN [text EXCEPT
             !.scale = IF elapsed < animDuration
                         THEN 1000 + (rest * rest * rest) \div 2000
                         ELSE 1000]

\* ------------------------------------------------------------------------
\* Reconciliation
\* ------------------------------------------------------------------------
\* A snapshot without game data read as one with empty lists.
listOf_Empty(lobby, field) ==
  IF Present(lobby.gameData) THEN Get(lobby.gameData)[field] ELSE <<<<>>>>

\* lobby.gameData?.tiles, ?.bombs, ?.explosions: the list, when it is there.
listOf(lobby, field) ==
  IF Present(lobby.gameData) THEN Get(lobby.gameData)[field] ELSE <<>>

\* The start of a game as the server announces it: waiting with one player,
\* waiting with two, countdown at 3000 ms, countdown at 0, playing.
startSequence(lobby, k) ==
  CASE k = 1 -> lobby.state = WAITING /\ Len(lobby.players) = 1
    [] k = 2 -> lobby.state = WAITING /\ Len(lobby.players) = 2
    [] k = 3 -> lobby.state = COUNTDOWN /\ countdownOf(lobby) = 3000
    [] k = 4 -> lobby.state = COUNTDOWN /\ countdownOf(lobby) = 0
    [] k = 5 -> lobby.state = PLAYING
    [] OTHER -> FALSE

\* How far the latest reconciliations have followed that sequence.
sequenceAfter(seq, lobby) ==
  IF startSequence(lobby, seq + 1) THEN seq + 1
  ELSE IF startSequence(lobby, 1) THEN 1
  ELSE 0

\* The bomb and explosion reconciliation of updateFromLobby on the effects
\* of the second run; `players` are the reconciled players, which frame
\* ticks do not touch.
reconcileSecond(run, lobby, players, t) ==
  LET newBombs == listOf(lobby, "bombs")
      newExplosions == listOf(lobby, "explosions")
      exp == IF Present(newExplosions)
               THEN syncExplosions(run.explosionSprites, run.shakeIntensity,
                                   Get(newExplosions), t, lobby.mySocketId,
                                   players)
               ELSE [sprites |-> run.explosionSprites, shake |-> run.shakeIntensity]
  IN [run EXCEPT
        !.bombSprites = IF Present(newBombs)
                          THEN syncBombs(run.bombSprites, Get(newBombs))
                          ELSE @,
        !.explosionSprites = exp.sprites,
        !.shakeIntensity = exp.shake]

UpdateFromLobby(lobby) ==
  IF ~initialized
    THEN /\ ev' = [Quiet("updateFromLobby") EXCEPT
                     !.args = IF pendingInit # <<>> THEN <<lobby>> ELSE <<>>]
         /\ UNCHANGED <<envVars, gameVars, entityVars, cameraVars, lobbyVars, twin,
                        hudVars, inputVars, shakeIntensity, globalTime, hold>>
    ELSE
      LET newTiles == listOf(lobby, "tiles")
          newBombs == listOf(lobby, "bombs")
          newExplosions == listOf(lobby, "explosions")
          players == syncPlayers(playerSprites, lobby.players, now, globalTime)
          bombs == IF Present(newBombs)
                     THEN syncBombs(bombSprites, Get(newBombs))
                     ELSE bombSprites
          exp == IF Present(newExplosions)
                   THEN syncExplosions(explosionSprites, shakeIntensity,
                                       Get(newExplosions), now, lobby.mySocketId,
                                       players)
                   ELSE [sprites |-> explosionSprites, shake |-> shakeIntensity]
          hud == updateGameStateUI(
                   [statusText |-> statusText, countdownText |-> countdownText,
                    lastCountdownValue |-> lastCountdownValue,
                    countdownAnimStart |-> countdownAnimStart], lobby, now)
      IN /\ currentLobby' = <<lobby>>
         /\ mySocketId' = lobby.mySocketId
         /\ tiles' = IF Present(newTiles) THEN Get(newTiles) ELSE tiles
         /\ playerSprites' = players
         /\ bombSprites' = bombs
         /\ explosionSprites' = exp.sprites
         /\ shakeIntensity' = exp.shake
         /\ statusText' = hud.statusText
         /\ countdownText' = hud.countdownText
         /\ UNCHANGED statusTextX
         /\ lastCountdownValue' = hud.lastCountdownValue
         /\ countdownAnimStart' = hud.countdownAnimStart
         /\ ev' = [Quiet("updateFromLobby") EXCEPT
                     !.applied = TRUE,
                     !.createdPlayers = DOMAIN playerSprites' \ DOMAIN playerSprites,
                     !.createdBombs = DOMAIN bombSprites' \ DOMAIN bombSprites,
                     !.createdExplosions =
                        DOMAIN explosionSprites' \ DOMAIN explosionSprites,
                     !.idleBombs = {id \in DOMAIN bombSprites :
                                      bombSprites[id].wrapBouncePhase = 0},
                     !.prevExplosions = DOMAIN explosionSprites,
                     !.destroyedExplosions =
                        IF Present(newExplosions)
                          THEN destroyCalls(explosionSprites,
                                            idsOf(Get(newExplosions)))
                          ELSE [id \in DOMAIN explosionSprites |-> 0],
                     !.removedAges =
                        {now - explosionSprites[id].createdAt :
                           id \in DOMAIN explosionSprites \ DOMAIN explosionSprites'},
                     !.prevShake = shakeIntensity,
                     !.deadSince = deadRuns(ev.deadSince, lobby.players, now),
                     !.seq = sequenceAfter(ev.seq, lobby),
                     !.goAt = IF sequenceAfter(ev.seq, lobby) = 4 THEN now ELSE @,
                     !.shown = IF lobby.state = COUNTDOWN
                                 THEN <<CeilDiv(countdownOf(lobby), 1000)>>
                               ELSE IF lobby.state \in {WAITING, ENDED} THEN <<>>
                               ELSE @]
         /\ hold' = IF lobby.state = PLAYING THEN hold ELSE NoHold
         /\ twin' = IF Present(twin)
                      THEN <<reconcileSecond(Get(twin), lobby, players, now)>>
                      ELSE twin
         /\ UNCHANGED <<envVars, gameVars, cameraVars, inputVars, globalTime>>

\* ------------------------------------------------------------------------
\* Input router
\* ------------------------------------------------------------------------
phasePlaying == Present(currentLobby) /\ Get(currentLobby).state = PLAYING
phaseWaiting == Present(currentLobby) /\ Get(currentLobby).state = WAITING

\* The direction of the held movement keys, in the order the code tests
\* them; <<>> when none is held.
heldDirection(held) ==
  IF "ArrowUp" \in held \/ "KeyW" \in held THEN <<DIR_UP>>
  ELSE IF "ArrowDown" \in held \/ "KeyS" \in held THEN <<DIR_DOWN>>
  ELSE IF "ArrowLeft" \in held \/ "KeyA" \in held THEN <<DIR_LEFT>>
  ELSE IF "ArrowRight" \in held \/ "KeyD" \in held THEN <<DIR_RIGHT>>
  ELSE <<>>

\* The direction of one key code; <<>> for a key that is no movement key.
codeDirection(code) == heldDirection({code})

\* processHeldKeys that does not look at the phase.
processHeldKeys_AnyPhase(t) ==
  IF t - lastMoveTime < moveRepeatDelay THEN <<>>
  ELSE IF callbacks THEN heldDirection(keysHeld)
  ELSE <<>>

\* processHeldKeys(now): the onMove it dispatches, <<>> when it returns early.
processHeldKeys(t) ==
  IF ~phasePlaying THEN <<>>
  ELSE IF t - lastMoveTime < moveRepeatDelay THEN <<>>
  ELSE IF callbacks THEN heldDirection(keysHeld)
  ELSE <<>>

\* The history of the onMove dispatches of the current hold.
Dispatched(h, move, t) ==
  IF move = <<>> THEN h
  ELSE [h EXCEPT !.at = <<t>>,
                 !.gap = IF Present(h.at) THEN <<t - Get(h.at)>> ELSE <<>>]

\* handleKeyDown without its phase gate.
keyDownGate_Open == TRUE

\* The phase gate of handleKeyDown.
keyDownGate == phasePlaying

\* The immediate movement of handleKeyDown, once the key is in the held set.
immediateMove(code, held) ==
  IF Cardinality(held) = 1 /\ callbacks THEN codeDirection(code) ELSE <<>>

\* Bomb and throw dispatched for every such key in the held set.
keyActions_Held(code, held) ==
  [bomb |-> IF "Space" \in held /\ callbacks THEN 1 ELSE 0,
   throw |-> IF "KeyE" \in held /\ callbacks THEN 1 ELSE 0]

\* The onBomb and onThrow calls of a handleKeyDown that passed its gate.
keyActions(code, held) ==
  [bomb |-> IF code = "Space" /\ callbacks THEN 1 ELSE 0,
   throw |-> IF code = "KeyE" /\ callbacks THEN 1 ELSE 0]

HandleKeyDown(code, shiftKey) ==
  LET held == keysHeld \cup {code}
      move == IF keyDownGate THEN immediateMove(code, held) ELSE <<>>
  IN /\ keysHeld' = held
     /\ lastMoveTime' = IF move # <<>> THEN now ELSE lastMoveTime
     /\ ev' = [Quiet("keyDown") EXCEPT
                 !.applied = keyDownGate,
                 !.args = <<code>>,
                 !.out = [move |-> move,
                          bomb |-> IF keyDownGate THEN keyActions(code, held).bomb
                                   ELSE 0,
                          throw |-> IF keyDownGate THEN keyActions(code, held).throw
                                    ELSE 0,
                          start |-> IF ~keyDownGate /\ code = "Enter" /\ shiftKey
                                       /\ phaseWaiting /\ callbacks
                                      THEN 1 ELSE 0]]
     /\ hold' = [Dispatched(hold, move, now) EXCEPT
                   !.intent = IF move # <<>> THEN Put(@, code, Get(move)) ELSE @]
     /\ UNCHANGED <<envVars, gameVars, entityVars, cameraVars, lobbyVars, twin,
                    hudVars, shakeIntensity, globalTime>>

HandleKeyUp(code) ==
  /\ keysHeld' = keysHeld \ {code}
  /\ ev' = Quiet("keyUp")
  /\ hold' = IF code \in keysHeld
               THEN [NoHold EXCEPT
                       !.intent = Restrict(hold.intent, DOMAIN hold.intent \ {code})]
               ELSE hold
  /\ UNCHANGED <<envVars, gameVars, entityVars, cameraVars, lobbyVars, twin, hudVars,
                 lastMoveTime, shakeIntensity, globalTime>>

\* ------------------------------------------------------------------------
\* Frame tick
\* ------------------------------------------------------------------------
animatePlayer(sprite, t) ==
  [sprite EXCEPT
     !.x = lerp(sprite.x, sprite.targetX, 25),
     !.y = lerp(sprite.y, sprite.targetY, 25),
     !.deathProgress =
        IF ~sprite.data.alive /\ sprite.deathTime > 0
          THEN Min(((t - sprite.deathTime) * 1000) \div deathDuration, 1000)
          ELSE 0]

\* Math.sin(bouncePhase * Math.PI) * -20 for the bounce clock value.
flyingBounce(bounceTime) ==
  -((bounceHeight * SinPiMilli(bounceTime % bouncePeriod, bouncePeriod)) \div 1000)

\* The squash (phase < 1) or stretch (phase >= 1) of the wrap bounce, as
\* [along, across] the travel axis.
wrapScale(phase) ==
  IF phase < 100
    THEN LET squash == 1000 - (SinPiMilli(phase, 100) * 4) \div 10
         IN [along |-> squash, across |-> 1000 + ((1000 - squash) * 3) \div 10]
    ELSE LET stretch == 1000 + (SinPiMilli(phase - 100, 100) * 3) \div 10
         IN [along |-> stretch, across |-> 1000 - ((stretch - 1000) * 3) \div 10]

\* The bounce clock is kept modulo lcm(bounceStep, bouncePeriod): the code
\* reads it only as bounceTime % bouncePeriod.
bounceWrap == 8 * bouncePeriod
advanceBounce(bounceTime) == (bounceTime + bounceStep) % bounceWrap

\* A frame tick that leaves a running wrap bounce where it is.
wrapBounceStep_Stalled(sprite) == sprite

\* A wrap bounce during which the position keeps easing toward the target.
wrapBounceStep_Eased(sprite) ==
  LET phase == sprite.wrapBouncePhase + wrapStep IN
  [sprite EXCEPT
     !.wrapBouncePhase = IF phase >= 200 THEN 0 ELSE phase,
     !.wrapBounceDir = IF phase >= 200 THEN NoDir ELSE @,
     !.x = lerp(sprite.x, sprite.targetX, 35),
     !.y = lerp(sprite.y, sprite.targetY, 35)]

wrapBounceStep(sprite) ==
  LET phase == sprite.wrapBouncePhase + wrapStep
      teleport == phase >= 100 /\ phase < wrapTeleportEnd
      done == phase >= 200
      sc == wrapScale(IF phase < 200 THEN phase ELSE 200)
      flying == sprite.data.isFlying
      clock == IF flying THEN advanceBounce(sprite.bounceTime)
               ELSE sprite.bounceTime
  IN [sprite EXCEPT
        !.wrapBouncePhase = IF done THEN 0 ELSE phase,
        !.wrapBounceDir = IF done THEN NoDir ELSE @,
        !.x = IF teleport THEN sprite.targetX ELSE @,
        !.y = IF teleport THEN sprite.targetY ELSE @,
        !.scaleX = IF done THEN 1000
                   ELSE IF sprite.wrapBounceDir = "x" THEN sc.along ELSE sc.across,
        !.scaleY = IF done THEN 1000
                   ELSE IF sprite.wrapBounceDir = "x" THEN sc.across ELSE sc.along,
        !.bounceTime = clock,
        !.bounceOffset = IF flying THEN flyingBounce(clock) ELSE 0]

\* A bounce that goes on from its clock after the flying flag has cleared.
normalBombStep_StillBouncing(sprite) ==
  LET lerpSpeed == IF sprite.data.isFlying THEN 35
                   ELSE IF sprite.data.isMoving THEN 30 ELSE 25
      clock == IF sprite.data.isFlying \/ sprite.bounceTime > 0
                 THEN advanceBounce(sprite.bounceTime) ELSE 0
      offset == flyingBounce(clock)
  IN [sprite EXCEPT
        !.x = lerp(sprite.x, sprite.targetX, lerpSpeed),
        !.y = lerp(sprite.y, sprite.targetY + offset, lerpSpeed),
        !.bounceTime = clock,
        !.bounceOffset = offset]

normalBombStep(sprite) ==
  LET lerpSpeed == IF sprite.data.isFlying THEN 35
                   ELSE IF sprite.data.isMoving THEN 30 ELSE 25
      flying == sprite.data.isFlying
      clock == IF flying THEN advanceBounce(sprite.bounceTime) ELSE 0
      offset == IF flying THEN flyingBounce(clock) ELSE 0
  IN [sprite EXCEPT
        !.x = lerp(sprite.x, sprite.targetX, lerpSpeed),
        !.y = lerp(sprite.y, sprite.targetY + offset, lerpSpeed),
        !.bounceTime = clock,
        !.bounceOffset = offset]

animateBomb(sprite) ==
  IF sprite.wrapBouncePhase > 0 /\ sprite.wrapBouncePhase < 200
    THEN wrapBounceStep(sprite)
    ELSE normalBombStep(sprite)

worldWidth == GRID_WIDTH * TILE_SIZE
worldHeight == GRID_HEIGHT * TILE_SIZE

\* Math.min(max, Math.max(min, v))
clamp(lo, hi, v) == Min(hi, Max(lo, v))

\* A camera target that follows the player without clamping.
axisTarget_Unclamped(world, viewport, centre, pos) ==
  IF world <= viewport THEN centre
  ELSE IF Present(pos) THEN -Get(pos) + viewport \div 2
  ELSE 0

\* The camera target of updateCamera on one axis: `centre` is the target of
\* a world that fits the viewport, `pos` the local sprite's rendered
\* position (<<>> without a local sprite).
axisTarget(world, viewport, centre, pos) ==
  IF world <= viewport THEN centre
  ELSE IF Present(pos)
         THEN clamp(-world + viewport, 0, -Get(pos) + viewport \div 2)
         ELSE 0

\* A follow target that falls back to any player when there is no local one.
localPos_AnyPlayer(players, axis) ==
  IF mySocketId # NoId /\ mySocketId \in DOMAIN players
    THEN <<players[mySocketId][axis]>>
  ELSE IF DOMAIN players # {}
    THEN <<players[CHOOSE id \in DOMAIN players : TRUE][axis]>>
  ELSE <<>>

\* The rendered position of the local sprite on one axis, <<>> without one.
localPos(players, axis) ==
  IF mySocketId # NoId /\ mySocketId \in DOMAIN players
    THEN <<players[mySocketId][axis]>>
    ELSE <<>>

cameraTarget(players) ==
  [x |-> axisTarget(worldWidth, containerWidth,
                    (containerWidth - worldWidth) \div 2, localPos(players, "x")),
   y |-> axisTarget(worldHeight, containerHeight, 0, localPos(players, "y"))]

\* (Math.random() - 0.5) * intensity: sampled at both ends and the middle.
shakeOffsets(intensity) == {-(intensity \div 200), 0, (intensity - 1) \div 200}

\* shakeIntensity * shakeDecay, truncated to hundredths, with the snap to 0.
decayShake(intensity) ==
  LET next == (intensity * shakeDecay) \div 100
  IN IF next < shakeEpsilon THEN 0 ELSE next

\* A world transform that the shake perturbs from where the last frame
\* left it.
worldContainerAt_Accumulating(camera, world, shake, offset) ==
  IF shake > shakeEpsilon THEN world + offset ELSE camera

\* worldContainer.x (or .y) at the end of update(): updateCamera() replaces
\* the value the last frame left by the camera, and the shake, when above
\* its threshold, adds its offset to that.
worldContainerAt(camera, world, shake, offset) ==
  IF shake > shakeEpsilon THEN camera + offset ELSE camera

\* An explosion loop that drops the explosions older than their duration.
animateExplosions_Expire(sprites, t) ==
  Restrict(sprites, {id \in DOMAIN sprites :
                       t - sprites[id].createdAt <= EXPLOSION_DURATION})

\* The explosion loop of update(): every owned explosion is redrawn at its
\* age; the collection is not changed.
animateExplosions(sprites, t) == sprites

Update ==
  /\ tickers > 0 /\ ~appDestroyed
  /\ LET move == processHeldKeys(now)
         players == [id \in DOMAIN playerSprites |->
                       animatePlayer(playerSprites[id], now)]
         target == cameraTarget(players)
         camX == lerp(cameraX, target.x, 10)
         camY == lerp(cameraY, target.y, 10)
     IN /\ globalTime' = now
        /\ lastMoveTime' = IF move # <<>> THEN now ELSE lastMoveTime
        /\ hold' = Dispatched(hold, move, now)
        /\ playerSprites' = players
        /\ bombSprites' = [id \in DOMAIN bombSprites |-> animateBomb(bombSprites[id])]
        /\ cameraX' = camX
        /\ cameraY' = camY
        /\ \E rx \in shakeOffsets(shakeIntensity) :
             worldX' = worldContainerAt(camX, worldX, shakeIntensity, rx)
        /\ \E ry \in shakeOffsets(shakeIntensity) :
             worldY' = worldContainerAt(camY, worldY, shakeIntensity, ry)
        /\ shakeIntensity' = IF shakeIntensity > shakeEpsilon
                               THEN decayShake(shakeIntensity)
                               ELSE shakeIntensity
        /\ countdownText' = animateCountdown(countdownText, countdownAnimStart, now)
        /\ ev' = [Quiet("update") EXCEPT
                    !.applied = TRUE,
                    !.out = [NoOut EXCEPT !.move = move],
                    !.idleBombs = {id \in DOMAIN bombSprites :
                                     bombSprites[id].wrapBouncePhase = 0},
                    !.prevExplosions = DOMAIN explosionSprites,
                    !.destroyedExplosions = [id \in DOMAIN explosionSprites |-> 0],
                    !.camTarget = <<target>>]
  /\ explosionSprites' = animateExplosions(explosionSprites, now)
  /\ UNCHANGED <<envVars, gameVars, tiles, lobbyVars, twin,
                 statusText, statusTextX, lastCountdownValue, countdownAnimStart,
                 keysHeld>>

\* A frame tick of the second run: the bomb animation and the shake decay
\* of update().
UpdateSecond ==
  /\ tickers > 0 /\ ~appDestroyed
  /\ Present(twin)
  /\ twin' = <<[Get(twin) EXCEPT
                  !.globalTime = now,
                  !.bombSprites = [id \in DOMAIN @ |-> animateBomb(@[id])],
                  !.shakeIntensity = IF @ > shakeEpsilon THEN decayShake(@) ELSE @]>>
  /\ ev' = Quiet("updateSecond")
  /\ UNCHANGED <<envVars, gameVars, entityVars, cameraVars, lobbyVars, hudVars,
                 inputVars, shakeIntensity, globalTime, hold>>

\* ------------------------------------------------------------------------
\* Snapshots
\* ------------------------------------------------------------------------
GameData(tileArr, bombs, explosions, countdown, timeRemaining, gameMode, winnerId) ==
  [tiles |-> tileArr, bombs |-> bombs, explosions |-> explosions,
   countdown |-> countdown, timeRemaining |-> timeRemaining,
   gameMode |-> gameMode, winnerId |-> winnerId]

Lobby(state, players, myId, gameData) ==
  [state |-> state, players |-> players, mySocketId |-> myId,
   gameData |-> gameData]

\* ------------------------------------------------------------------------
\* Specification of the input router: key events, frame ticks and phase
\* changes against the wall clock
\* ------------------------------------------------------------------------
InputCodes == {"ArrowUp", "KeyD", "Space", "KeyE", "Enter"}
InputSteps == {60, 120}
InputLobbies == {Lobby(state, <<>>, NoId, <<>>) : state \in {WAITING, COUNTDOWN, PLAYING}}

\* The container has the size of the world, so the camera rests at the origin.
InitInput == Construct({worldWidth}, {worldHeight})

\* The React wrapper creates the Game, gives it the callbacks and calls
\* init() once, in one callback; events reach the Game only after that, and
\* its cleanup calls destroy() once.
Mounted == callbacks /\ initCalls > 0

NextInput ==
  \/ \E dt \in InputSteps : Advance(dt, InputHorizon)
  \/ SetCallbacks
  \/ callbacks /\ initCalls = 0 /\ InitCall
  \/ InitResume
  \/ Mounted /\ ~appDestroyed /\ Destroy
  \/ \E lobby \in InputLobbies : Mounted /\ UpdateFromLobby(lobby)
  \/ \E code \in InputCodes, shiftKey \in BOOLEAN :
       Mounted /\ HandleKeyDown(code, shiftKey)
  \/ \E code \in InputCodes : Mounted /\ HandleKeyUp(code)
  \/ Update

SpecInput == InitInput /\ [][NextInput]_vars

\* ------------------------------------------------------------------------
\* Specification of entity lifecycles: players, a bomb and explosions
\* appear in and disappear from the snapshots, in any combination, as the
\* clock advances.  No local player is identified.
\* ------------------------------------------------------------------------
Player(id, name, gridX, gridY, alive) ==
  [socketId |-> id, name |-> name, gridX |-> gridX, gridY |-> gridY,
   alive |-> alive]
Bomb(id, gridX, gridY, timer, isFlying, isMoving) ==
  [id |-> id, gridX |-> gridX, gridY |-> gridY, timer |-> timer,
   isFlying |-> isFlying, isMoving |-> isMoving]
Explosion(id, gridX, gridY) == [id |-> id, gridX |-> gridX, gridY |-> gridY]

\* The lists over the records of S that hold at most one record per id, in
\* the order of `ids`.
RECURSIVE ListsInOrder(_, _, _)
ListsInOrder(ids, S, key) ==
  IF ids = <<>> THEN {<<>>}
  ELSE LET rest == ListsInOrder(Tail(ids), S, key)
       IN rest \cup {<<r>> \o l : r \in {x \in S : x[key] = Head(ids)}, l \in rest}

SyncPlayerItems ==
  {Player("p1", "Ann", 3, 4, TRUE), Player("p2", "Bob", 18, 14, TRUE)}
\* A bomb with half of its fuse left.
SyncBombItems == {Bomb("b1", 1, 0, BOMB_TIMER \div 2, FALSE, FALSE)}
SyncExplosionItems ==
  {Explosion("e1", c[1], c[2]) : c \in {<<2, 2>>, <<5, 1>>}}
    \cup {Explosion("e2", 2, 2)}
\* One step takes an explosion past EXPLOSION_DURATION (500 ms).
SyncSteps == {600}

\* Snapshots without game data, and snapshots with a bomb and an explosion
\* list.
SyncLobbies ==
  {Lobby(PLAYING, players, NoId, <<>>) :
     players \in ListsInOrder(<<"p1", "p2">>, SyncPlayerItems, "socketId")}
  \cup
  {Lobby(PLAYING, players, NoId,
         <<GameData(<<>>, <<bombs>>, <<explosions>>, 0, 0, LAST_MAN_STANDING, <<>>)>>) :
     players \in ListsInOrder(<<"p1", "p2">>, SyncPlayerItems, "socketId"),
     bombs \in ListsInOrder(<<"b1">>, SyncBombItems, "id"),
     explosions \in ListsInOrder(<<"e1", "e2">>, SyncExplosionItems, "id")}

InitSync == Construct({worldWidth}, {worldHeight})

NextSync ==
  \/ \E dt \in SyncSteps : Advance(dt, SyncHorizon)
  \/ SetCallbacks
  \/ callbacks /\ initCalls = 0 /\ InitCall
  \/ InitResume
  \/ Mounted /\ ~appDestroyed /\ Destroy
  \/ \E lobby \in SyncLobbies : Mounted /\ UpdateFromLobby(lobby)
  \/ Update

SpecSync == InitSync /\ [][NextSync]_vars

\* ------------------------------------------------------------------------
\* Specification of the death bookkeeping: two players that the snapshots
\* show alive or dead, or not at all, as the clock advances
\* ------------------------------------------------------------------------
DeathPlayerItems ==
  {Player("p1", "Ann", 1, 1, alive) : alive \in BOOLEAN}
    \cup {Player("p2", "Bob", 17, 13, alive) : alive \in BOOLEAN}
DeathSteps == {700}
DeathLobbies ==
  {Lobby(PLAYING, players, NoId, <<>>) :
     players \in ListsInOrder(<<"p1", "p2">>, DeathPlayerItems, "socketId")}

InitDeath == Construct({worldWidth}, {worldHeight})

NextDeath ==
  \/ \E dt \in DeathSteps : Advance(dt, DeathHorizon)
  \/ SetCallbacks
  \/ callbacks /\ initCalls = 0 /\ InitCall
  \/ InitResume
  \/ Mounted /\ ~appDestroyed /\ Destroy
  \/ \E lobby \in DeathLobbies : Mounted /\ UpdateFromLobby(lobby)
  \/ Update

SpecDeath == InitDeath /\ [][NextDeath]_vars

\* ------------------------------------------------------------------------
\* Specification of the screen shake: the local player stands at the origin
\* and explosions appear at grid distances 1, 5, sqrt(34) and 6
\* ------------------------------------------------------------------------
ShakePlayerItems == {Player("p1", "Ann", 0, 0, TRUE)}
ShakeExplosionItems ==
  {Explosion("e1", 1, 0), Explosion("e1", 6, 0), Explosion("e2", 3, 4),
   Explosion("e2", 5, 3)}
ShakeLobbies ==
  {Lobby(PLAYING, players, "p1",
         <<GameData(<<>>, <<<<>>>>, <<explosions>>, 0, 0, LAST_MAN_STANDING, <<>>)>>) :
     players \in ListsInOrder(<<"p1">>, ShakePlayerItems, "socketId"),
     explosions \in ListsInOrder(<<"e1", "e2">>, ShakeExplosionItems, "id")}

InitShake == Construct({worldWidth}, {worldHeight})

NextShake ==
  \/ SetCallbacks
  \/ callbacks /\ initCalls = 0 /\ InitCall
  \/ InitResume
  \/ Mounted /\ ~appDestroyed /\ Destroy
  \/ \E lobby \in ShakeLobbies : Mounted /\ UpdateFromLobby(lobby)
  \/ Update

SpecShake == InitShake /\ [][NextShake]_vars

\* The render loop calls update() on every frame while the application
\* lives.
SpecShakeLive == InitShake /\ [][NextShake]_vars /\ WF_vars(Update)

\* ------------------------------------------------------------------------
\* Specification of the camera: a viewport smaller than the world on both
\* axes, the local player appearing at the corners and the middle of the
\* grid
\* ------------------------------------------------------------------------
CameraWidths == {400}
CameraHeights == {300}
CameraPlayerItems ==
  {Player("p1", "Ann", c[1], c[2], TRUE) :
     c \in {<<0, 0>>, <<9, 7>>, <<GRID_WIDTH - 1, GRID_HEIGHT - 1>>}}
\* With the local player, without a local id, and (next to an explosion in
\* the middle of the grid) without a local id or with the id of a player
\* that is not in the list.
CameraLobbies ==
  {Lobby(PLAYING, players, myId, <<>>) :
     players \in ListsInOrder(<<"p1">>, CameraPlayerItems, "socketId"),
     myId \in {"p1", NoId}}
  \cup
  {Lobby(PLAYING, players, myId,
         <<GameData(<<>>, <<>>, <<<<Explosion("e1", 9, 7)>>>>, 0, 0,
                    LAST_MAN_STANDING, <<>>)>>) :
     players \in ListsInOrder(<<"p1">>, CameraPlayerItems, "socketId"),
     myId \in {"p2", NoId}}

\* The snapshots change only once the scene has come to rest: the next
\* frame tick would move neither a player nor the camera.
SceneAtRest(lobby) ==
  \/ <<lobby>> = currentLobby
  \/ /\ \A id \in DOMAIN playerSprites :
          animatePlayer(playerSprites[id], now) = playerSprites[id]
     /\ lerp(cameraX, cameraTarget(playerSprites).x, 10) = cameraX
     /\ lerp(cameraY, cameraTarget(playerSprites).y, 10) = cameraY

InitCamera == Construct(CameraWidths, CameraHeights)

NextCamera ==
  \/ SetCallbacks
  \/ callbacks /\ initCalls = 0 /\ InitCall
  \/ InitResume
  \/ Mounted /\ ~appDestroyed /\ Destroy
  \/ \E lobby \in CameraLobbies :
       Mounted /\ SceneAtRest(lobby) /\ UpdateFromLobby(lobby)
  \/ Update

SpecCamera == InitCamera /\ [][NextCamera]_vars

\* ------------------------------------------------------------------------
\* Specification of the shaken camera: on the small viewport the local
\* player moves between a corner and the middle of the grid while an
\* explosion appears in the middle of the grid, so that the camera travels
\* while the world shakes
\* ------------------------------------------------------------------------
ShakenPlayerItems ==
  {Player("p1", "Ann", c[1], c[2], TRUE) : c \in {<<0, 0>>, <<9, 7>>}}
ShakenLobbies ==
  {Lobby(PLAYING, players, "p1",
         <<GameData(<<>>, <<>>, <<explosions>>, 0, 0, LAST_MAN_STANDING, <<>>)>>) :
     players \in ListsInOrder(<<"p1">>, ShakenPlayerItems, "socketId"),
     explosions \in {<<>>, <<Explosion("e1", 9, 7)>>}}

InitShaken == Construct(CameraWidths, CameraHeights)

NextShaken ==
  \/ SetCallbacks
  \/ callbacks /\ initCalls = 0 /\ InitCall
  \/ InitResume
  \/ Mounted /\ ~appDestroyed /\ Destroy
  \/ \E lobby \in ShakenLobbies :
       Mounted /\ SceneAtRest(lobby) /\ UpdateFromLobby(lobby)
  \/ Update

SpecShaken == InitShaken /\ [][NextShaken]_vars

\* ------------------------------------------------------------------------
\* Specification of the bomb flight: one bomb that the snapshots place at
\* cells one, five and more than five tiles apart, flying or not.  The
\* second specification adds the frame ticks the render loop keeps
\* delivering while the Game is mounted.
\* ------------------------------------------------------------------------
BombIds == {"b1"}
BombCells == {<<0, 0>>, <<1, 0>>, <<6, 0>>, <<6, 6>>}
BombLiveCells == {<<0, 0>>, <<6, 0>>, <<6, 6>>}
BombItems(cells) ==
  {Bomb("b1", c[1], c[2], BOMB_TIMER, isFlying, FALSE) :
     c \in cells, isFlying \in BOOLEAN}
BombLobbies(cells) ==
  {Lobby(PLAYING, <<>>, NoId,
         <<GameData(<<>>, <<bombs>>, <<<<>>>>, 0, 0, LAST_MAN_STANDING, <<>>)>>) :
     bombs \in ListsInOrder(<<"b1">>, BombItems(cells), "id")}

\* What the snapshots do to a bomb the Game owns: a flying bomb lands in
\* its cell while it is idle or during the last two frames of its wrap
\* bounce; a running wrap bounce sees the flying bomb move on; any other
\* change waits until the bomb has landed and come to rest.
BombsAtRest(lobby) ==
  \A b \in Range(Get(listOf(lobby, "bombs"))) :
    b.id \in DOMAIN bombSprites =>
      LET sprite == bombSprites[b.id]
          sameCell == b.gridX = sprite.data.gridX /\ b.gridY = sprite.data.gridY
      IN \/ sameCell /\ b.isFlying = sprite.data.isFlying
         \/ /\ sameCell /\ ~b.isFlying
            /\ (sprite.wrapBouncePhase = 0 \/ sprite.wrapBouncePhase >= 200 - 2 * wrapStep)
         \/ sprite.wrapBouncePhase > 0 /\ b.isFlying = sprite.data.isFlying
         \/ /\ sprite.wrapBouncePhase = 0 /\ ~sprite.data.isFlying
            /\ animateBomb(sprite) = sprite

InitBomb == Construct({worldWidth}, {worldHeight})

NextBomb ==
  \/ SetCallbacks
  \/ callbacks /\ initCalls = 0 /\ InitCall
  \/ InitResume
  \/ Mounted /\ ~appDestroyed /\ Destroy
  \/ \E lobby \in BombLobbies(BombCells) :
       Mounted /\ BombsAtRest(lobby) /\ UpdateFromLobby(lobby)
  \/ Update

SpecBomb == InitBomb /\ [][NextBomb]_vars

NextBombLive ==
  \/ SetCallbacks
  \/ callbacks /\ initCalls = 0 /\ InitCall
  \/ InitResume
  \/ Mounted /\ ~appDestroyed /\ Destroy
  \/ \E lobby \in BombLobbies(BombLiveCells) :
       Mounted /\ BombsAtRest(lobby) /\ UpdateFromLobby(lobby)
  \/ Update

\* The render loop calls update() on every frame while the application
\* lives: a frame tick that can happen does happen.
SpecBombLive == InitBomb /\ [][NextBombLive]_vars /\ WF_vars(Update)

\* ------------------------------------------------------------------------
\* Specification of the HUD: the lobby fills, counts down, plays and ends,
\* in any order, as the clock advances
\* ------------------------------------------------------------------------
HudPlayerLists ==
  {<<Player("p1", "Ann", 1, 1, TRUE)>>,
   <<Player("p1", "Ann", 1, 1, TRUE), Player("p2", "Bob", 17, 13, TRUE)>>}
HudCountdowns == {3000, 1500, 1000, 0}
HudSteps == {200, 300}
HudLobbies ==
  {Lobby(WAITING, players, "p1", <<>>) : players \in HudPlayerLists}
  \cup
  {Lobby(COUNTDOWN, players, "p1",
         <<GameData(<<>>, <<>>, <<>>, countdown, 0, LAST_MAN_STANDING, <<>>)>>) :
     players \in {l \in HudPlayerLists : Len(l) = 2}, countdown \in HudCountdowns}
  \cup
  {Lobby(PLAYING, players, "p1",
         <<GameData(<<>>, <<>>, <<>>, 0, g[2], g[1], <<>>)>>) :
     players \in {l \in HudPlayerLists : Len(l) = 2},
     g \in {<<LAST_MAN_STANDING, 0>>, <<DEATHMATCH, 61000>>}}
  \cup
  {Lobby(ENDED, players, "p1",
         <<GameData(<<>>, <<>>, <<>>, 0, 0, LAST_MAN_STANDING, <<"p2">>)>>) :
     players \in {l \in HudPlayerLists : Len(l) = 2}}

InitHud == Construct({worldWidth}, {worldHeight})

NextHud ==
  \/ \E dt \in HudSteps : Advance(dt, HudHorizon)
  \/ SetCallbacks
  \/ callbacks /\ initCalls = 0 /\ InitCall
  \/ InitResume
  \/ Mounted /\ ~appDestroyed /\ Destroy
  \/ \E lobby \in HudLobbies : Mounted /\ UpdateFromLobby(lobby)
  \/ Update

SpecHud == InitHud /\ [][NextHud]_vars

\* ------------------------------------------------------------------------
\* Specification of the lifecycle: init() called once or twice on a
\* container of any size, destroy() called at any time and any number of
\* times, with snapshots, key presses, resize events and frame ticks in
\* between
\* ------------------------------------------------------------------------
LifeWidths == {0, worldWidth}
LifeHeights == {0, worldHeight}
LifeCodes == {"ArrowUp"}
LifeLobbies ==
  {Lobby(PLAYING, <<>>, NoId, <<>>),
   Lobby(PLAYING, <<Player("p1", "Ann", 1, 1, TRUE)>>, NoId,
         <<GameData(<<>>, <<<<Bomb("b1", 1, 0, BOMB_TIMER, FALSE, FALSE)>>>>,
                    <<<<Explosion("e1", 2, 2)>>>>, 0, 0, LAST_MAN_STANDING, <<>>)>>)}

InitLife == Construct(LifeWidths, LifeHeights)

NextLife ==
  \/ SetCallbacks
  \/ callbacks /\ InitCall
  \/ InitResume
  \/ Mounted /\ Destroy
  \/ Mounted /\ Resize
  \/ \E lobby \in LifeLobbies : Mounted /\ UpdateFromLobby(lobby)
  \/ \E code \in LifeCodes : Mounted /\ HandleKeyDown(code, FALSE)
  \/ Update

SpecLife == InitLife /\ [][NextLife]_vars

\* ------------------------------------------------------------------------
\* Specification of the React wrapper: its mount effect creates the Game,
\* gives it the callbacks and calls init() once, its lobby effect hands
\* every new snapshot to updateFromLobby, its cleanup calls destroy().  The
\* await of init() resolves and the ticker keeps calling update().
\* ------------------------------------------------------------------------
WrapperLobbies == LifeLobbies \cup {Lobby(WAITING, <<>>, NoId, <<>>)}

InitWrapper == Construct(LifeWidths, LifeHeights)

NextWrapper ==
  \/ SetCallbacks
  \/ callbacks /\ initCalls = 0 /\ InitCall
  \/ InitResume
  \/ Mounted /\ ~appDestroyed /\ Destroy
  \/ \E lobby \in WrapperLobbies : Mounted /\ UpdateFromLobby(lobby)
  \/ Update

SpecWrapper ==
  InitWrapper /\ [][NextWrapper]_vars /\ WF_vars(Update) /\ WF_vars(InitResume)

\* ------------------------------------------------------------------------
\* Specification of partial snapshots: the game data, and each of its
\* tiles, bombs and explosions lists, is there or missing
\* ------------------------------------------------------------------------
PartialTiles == {<<>>, <<<<1, 1>>>>}
PartialBombs == {<<>>, <<<<>>>>, <<<<Bomb("b1", 1, 0, BOMB_TIMER, FALSE, FALSE)>>>>}
\* The explosion is five cells from the local player: a faint shake.
PartialExplosions == {<<>>, <<<<>>>>, <<<<Explosion("e1", 5, 4)>>>>}
PartialPlayers == {<<>>, <<Player("p1", "Ann", 1, 1, TRUE)>>}
PartialLobbies ==
  {Lobby(state, players, "p1", <<>>) :
     state \in {WAITING, PLAYING}, players \in PartialPlayers}
  \cup
  {Lobby(PLAYING, players, "p1",
         <<GameData(tileArr, bombs, explosions, 0, 0, LAST_MAN_STANDING, <<>>)>>) :
     players \in PartialPlayers, tileArr \in PartialTiles,
     bombs \in PartialBombs, explosions \in PartialExplosions}

InitPartial == Construct({worldWidth}, {worldHeight})

NextPartial ==
  \/ SetCallbacks
  \/ callbacks /\ initCalls = 0 /\ InitCall
  \/ InitResume
  \/ Mounted /\ ~appDestroyed /\ Destroy
  \/ \E lobby \in PartialLobbies : Mounted /\ UpdateFromLobby(lobby)
  \/ Update

SpecPartial == InitPartial /\ [][NextPartial]_vars

\* ------------------------------------------------------------------------
\* Specification of the tile layer: a snapshot delivers the tile array of
\* the whole grid, and tiles are written at and around the corners of the
\* grid
\* ------------------------------------------------------------------------
TileArray == [i \in 1..(GRID_WIDTH * GRID_HEIGHT) |-> 0]
TileXs == {-1, 0, GRID_WIDTH}
TileYs == {0, 1, GRID_HEIGHT}
TileTypes == {1}
TileLobbies ==
  {Lobby(PLAYING, <<>>, NoId, <<>>),
   Lobby(PLAYING, <<>>, NoId,
         <<GameData(<<TileArray>>, <<>>, <<>>, 0, 0, LAST_MAN_STANDING, <<>>)>>)}

InitTile == Construct({worldWidth}, {worldHeight})

NextTile ==
  \/ SetCallbacks
  \/ callbacks /\ initCalls = 0 /\ InitCall
  \/ InitResume
  \/ Mounted /\ ~appDestroyed /\ Destroy
  \/ \E lobby \in TileLobbies : Mounted /\ UpdateFromLobby(lobby)
  \/ \E gridX \in TileXs, gridY \in TileYs, tileType \in TileTypes :
       UpdateTile(gridX, gridY, tileType)
  \/ Update

SpecTile == InitTile /\ [][NextTile]_vars

\* ------------------------------------------------------------------------
\* Specification of two runs of the Game: the same lifecycle calls and the
\* same snapshots at the same wall-clock times, and frame ticks that each
\* run takes on its own, at most one per clock value
\* ------------------------------------------------------------------------
TwinSteps == {16}
TwinPlayers == <<Player("p1", "Ann", 0, 0, TRUE)>>
\* A flying bomb that crosses the border, and an explosion more than five
\* cells from the local player: a faint shake.
TwinItems ==
  {<<<<>>, <<>>>>} \cup
  {<<<<Bomb("b1", c[1], c[2], BOMB_TIMER, TRUE, FALSE)>>,
     <<Explosion("e1", 5, 2)>>>> : c \in {<<0, 0>>, <<6, 0>>}}
TwinLobbies ==
  {Lobby(PLAYING, TwinPlayers, "p1",
         <<GameData(<<>>, <<i[1]>>, <<i[2]>>, 0, 0, LAST_MAN_STANDING, <<>>)>>) :
     i \in TwinItems}

\* A snapshot that arrives at a clock value arrives, in both runs, before
\* the frame tick of that clock value.
BeforeFrame == globalTime < now /\ Get(twin).globalTime < now

InitTwin == ConstructWith({worldWidth}, {worldHeight}, <<secondRun>>)

NextTwin ==
  \/ \E dt \in TwinSteps : Advance(dt, TwinHorizon)
  \/ SetCallbacks
  \/ callbacks /\ initCalls = 0 /\ InitCall
  \/ InitResume
  \/ Mounted /\ ~appDestroyed /\ Destroy
  \/ \E lobby \in TwinLobbies :
       Mounted /\ BeforeFrame /\ UpdateFromLobby(lobby)
  \/ globalTime < now /\ Update
  \/ Get(twin).globalTime < now /\ UpdateSecond

SpecTwin == InitTwin /\ [][NextTwin]_vars

\* ------------------------------------------------------------------------
\* Properties
\* ------------------------------------------------------------------------
\* C1: after every reconciliation of a snapshot by an initialized Game, the
\* keys of playerSprites are the socketIds of the snapshot's players list,
\* and the keys of bombSprites and explosionSprites are the ids of the
\* snapshot's bombs and explosions lists.
C1_KeySets ==
  (ev.op = "updateFromLobby" /\ ev.applied) =>
    LET lobby == Get(currentLobby)
        bombs == listOf(lobby, "bombs")
        explosions == listOf(lobby, "explosions")
    IN /\ DOMAIN playerSprites =
            {lobby.players[i].socketId : i \in 1..Len(lobby.players)}
       /\ Present(bombs) => DOMAIN bombSprites = {b.id : b \in Range(Get(bombs))}
       /\ Present(explosions) =>
            DOMAIN explosionSprites = {e.id : e \in Range(Get(explosions))}

\* A reconciliation that adds a second player next to the one it keeps,
\* keeps the bomb and drops one of two explosions.
C1_Witness ==
  /\ ev.op = "updateFromLobby" /\ ev.applied
  /\ Present(Get(currentLobby).gameData)
  /\ DOMAIN playerSprites = {"p1", "p2"} /\ ev.createdPlayers = {"p2"}
  /\ DOMAIN bombSprites = {"b1"} /\ ev.createdBombs = {}
  /\ ev.prevExplosions = {"e1", "e2"} /\ DOMAIN explosionSprites = {"e1"}

\* C2: while the phase is playing and a movement key stays held, any two
\* successive onMove dispatches of that hold (the first included) are at
\* least moveRepeatDelay apart, whatever key-down events and frame ticks
\* arrive.
C2_MoveThrottle == Present(hold.gap) => Get(hold.gap) >= moveRepeatDelay

\* C3: onMove, onBomb and onThrow are dispatched only with a current
\* snapshot in the playing phase, onStart only with one in the waiting
\* phase; only a key-down ever dispatches onBomb, onThrow or onStart, so a
\* key-down that failed its gate is never acted on later.
C3_PhaseGates ==
  /\ (ev.out.move # <<>> \/ ev.out.bomb > 0 \/ ev.out.throw > 0) => phasePlaying
  /\ ev.out.start > 0 => phaseWaiting
  /\ ev.op # "keyDown" => ev.out.bomb = 0 /\ ev.out.throw = 0 /\ ev.out.start = 0

\* A frame tick in the playing phase that repeats the held movement key while
\* Space and Enter, pressed too, stay in the held set without effect.
C3_Witness ==
  /\ ev.op = "update" /\ phasePlaying
  /\ {"Space", "Enter", "ArrowUp"} \subseteq keysHeld
  /\ ev.out.move = <<DIR_UP>>

\* C4: an explosion the Game owns whose id is not in the explosions list of
\* the next snapshot is removed from explosionSprites and destroyed once by
\* that reconciliation, whatever its age; a sprite that stays is not
\* destroyed, and frame ticks remove and destroy none.
C4_RemovedOnce ==
  /\ (ev.op = "updateFromLobby" /\ ev.applied
        /\ Present(listOf(Get(currentLobby), "explosions"))) =>
       \A id \in ev.prevExplosions \
                   {e.id : e \in Range(Get(listOf(Get(currentLobby), "explosions")))} :
         id \notin DOMAIN explosionSprites /\ ev.destroyedExplosions[id] = 1
  /\ \A id \in DOMAIN ev.destroyedExplosions :
       /\ ev.destroyedExplosions[id] <= 1
       /\ id \in DOMAIN explosionSprites => ev.destroyedExplosions[id] = 0
  /\ ev.op = "update" =>
       /\ DOMAIN explosionSprites = ev.prevExplosions
       /\ \A id \in ev.prevExplosions : ev.destroyedExplosions[id] = 0

\* A reconciliation that follows a frame tick and removes an explosion older
\* than EXPLOSION_DURATION while it keeps another.
C4_Witness ==
  /\ ev.op = "updateFromLobby" /\ ev.applied
  /\ "e1" \in DOMAIN ev.destroyedExplosions /\ ev.destroyedExplosions["e1"] = 1
  /\ \E age \in ev.removedAges : age > EXPLOSION_DURATION
  /\ "e2" \in DOMAIN explosionSprites
  /\ globalTime = now

\* C5: a player whose latest snapshots all showed alive = false has, as its
\* deathTime, the time of the first of those observations.
C5_DeathTimeFirstObserved ==
  \A id \in DOMAIN ev.deadSince :
    id \in DOMAIN playerSprites => playerSprites[id].deathTime = ev.deadSince[id]

\* C6: a player, bomb or explosion that a reconciliation creates is
\* rendered, and (player, bomb) has its interpolation target, at the centre
\* of the cell of its snapshot item.
C6_CreatedAtCell ==
  (ev.op = "updateFromLobby" /\ ev.applied) =>
    LET lobby == Get(currentLobby)
        centre(g) == g * TILE_SIZE + TILE_SIZE \div 2
    IN /\ \A id \in ev.createdPlayers :
            LET item == CHOOSE p \in Range(lobby.players) : p.socketId = id
                sprite == playerSprites[id]
            IN /\ sprite.x = centre(item.gridX) /\ sprite.y = centre(item.gridY)
               /\ sprite.targetX = centre(item.gridX)
               /\ sprite.targetY = centre(item.gridY)
       /\ \A id \in ev.createdBombs :
            LET item == CHOOSE b \in Range(Get(listOf(lobby, "bombs"))) : b.id = id
                sprite == bombSprites[id]
            IN /\ sprite.x = centre(item.gridX) /\ sprite.y = centre(item.gridY)
               /\ sprite.targetX = centre(item.gridX)
               /\ sprite.targetY = centre(item.gridY)
       /\ \A id \in ev.createdExplosions :
            LET item == CHOOSE e \in Range(Get(listOf(lobby, "explosions"))) : e.id = id
                sprite == explosionSprites[id]
            IN sprite.x = centre(item.gridX) /\ sprite.y = centre(item.gridY)

\* A reconciliation that creates a player at cell (3, 4), a bomb and an
\* explosion at once.
C6_Witness ==
  /\ ev.op = "updateFromLobby" /\ ev.applied
  /\ "p1" \in ev.createdPlayers
  /\ playerSprites["p1"].x = 140 /\ playerSprites["p1"].y = 180
  /\ ev.createdBombs = {"b1"}
  /\ "e1" \in ev.createdExplosions

\* C7: on every frame tick, on each axis where the world is larger than the
\* viewport, the camera target lies in [-(world - viewport), 0].
C7_CameraClamped ==
  (ev.op = "update" /\ Present(ev.camTarget)) =>
    LET target == Get(ev.camTarget) IN
    /\ worldWidth > containerWidth =>
         target.x >= -(worldWidth - containerWidth) /\ target.x <= 0
    /\ worldHeight > containerHeight =>
         target.y >= -(worldHeight - containerHeight) /\ target.y <= 0

\* A frame tick with the local player so far right and down that following
\* it unclamped would leave the world: the target sits on the lower bounds.
C7_Witness ==
  /\ ev.op = "update" /\ Present(ev.camTarget)
  /\ worldWidth > containerWidth /\ worldHeight > containerHeight
  /\ mySocketId \in DOMAIN playerSprites
  /\ -playerSprites[mySocketId].x + containerWidth \div 2
       < -(worldWidth - containerWidth)
  /\ -playerSprites[mySocketId].y + containerHeight \div 2
       < -(worldHeight - containerHeight)
  /\ Get(ev.camTarget) = [x |-> -(worldWidth - containerWidth),
                          y |-> -(worldHeight - containerHeight)]

\* C8: a reconciliation leaves shakeIntensity at the maximum of its old
\* value and the intensities of the explosions it created within
\* maxDistance of the local player (never their sum); created explosions at
\* distance maxDistance or more, or without a local player, change nothing;
\* the intensity never grows with the distance.
C8_ShakeMax ==
  /\ \A d2 \in 0..(maxDistance * maxDistance - 2) : shakeFor(d2) >= shakeFor(d2 + 1)
  /\ (ev.op = "updateFromLobby" /\ ev.applied) =>
       LET hasLocal == mySocketId # NoId /\ mySocketId \in DOMAIN playerSprites
           dist2(id) ==
             LET dx == playerSprites[mySocketId].data.gridX - explosionSprites[id].gridX
                 dy == playerSprites[mySocketId].data.gridY - explosionSprites[id].gridY
             IN dx * dx + dy * dy
           near == IF hasLocal
                     THEN {id \in ev.createdExplosions :
                             dist2(id) < maxDistance * maxDistance}
                     ELSE {}
           intensities ==
             {ev.prevShake} \cup {maxShake - 2 * SqrtCenti[dist2(id)] : id \in near}
       IN /\ shakeIntensity \in intensities
          /\ \A i \in intensities : shakeIntensity >= i

\* A reconciliation that creates explosions at distances 1 and 5 while an
\* earlier shake is still decaying: the result is the larger intensity.
C8_Witness ==
  /\ ev.op = "updateFromLobby" /\ ev.applied
  /\ ev.createdExplosions = {"e1", "e2"}
  /\ explosionSprites["e1"].gridX = 1
  /\ ev.prevShake > 0 /\ ev.prevShake < 200
  /\ shakeIntensity = 1000

\* C9: a bomb whose wrap bounce is running is, after finitely many frame
\* ticks, either gone or idle again with no bounce axis and scale (1, 1).
C9_WrapBounceEnds ==
  \A id \in BombIds :
    (id \in DOMAIN bombSprites /\ bombSprites[id].wrapBouncePhase > 0)
      ~> (id \notin DOMAIN bombSprites
            \/ /\ bombSprites[id].wrapBouncePhase = 0
               /\ bombSprites[id].wrapBounceDir = NoDir
               /\ bombSprites[id].scaleX = 1000
               /\ bombSprites[id].scaleY = 1000)

\* The frame tick that ends a wrap bounce.
C9_Witness ==
  /\ ev.op = "update"
  /\ "b1" \in DOMAIN bombSprites /\ "b1" \notin ev.idleBombs
  /\ bombSprites["b1"].wrapBouncePhase = 0
  /\ bombSprites["b1"].wrapBounceDir = NoDir
  /\ bombSprites["b1"].scaleX = 1000 /\ bombSprites["b1"].scaleY = 1000
  /\ bombSprites["b1"].x = bombSprites["b1"].targetX

\* C10: updateBomb starts the wrap bounce (phase 0.01) exactly for an idle
\* bomb whose new data is flying and whose new target is more than 5 tiles
\* from its previous target on an axis; the axis is x whenever x exceeds
\* the threshold, else y; a created bomb starts idle.
C10_WrapTrigger ==
  (ev.op = "updateFromLobby" /\ ev.applied
     /\ Present(listOf(Get(currentLobby), "bombs"))) =>
    \A id \in DOMAIN bombSprites :
      LET sprite == bombSprites[id]
          farX == Abs(sprite.targetX - sprite.prevTargetX) > 5 * TILE_SIZE
          farY == Abs(sprite.targetY - sprite.prevTargetY) > 5 * TILE_SIZE
          started == id \in ev.idleBombs /\ sprite.wrapBouncePhase # 0
          due == id \in ev.idleBombs /\ sprite.data.isFlying /\ (farX \/ farY)
      IN IF id \in ev.createdBombs
           THEN sprite.wrapBouncePhase = 0 /\ sprite.wrapBounceDir = NoDir
           ELSE /\ started <=> due
                /\ started =>
                     /\ sprite.wrapBouncePhase = wrapStart
                     /\ sprite.wrapBounceDir = IF farX THEN "x" ELSE "y"
                /\ (id \in ev.idleBombs /\ ~due) =>
                     sprite.wrapBouncePhase = 0 /\ sprite.wrapBounceDir = NoDir

\* A flying bomb that jumps from cell (0, 0) to cell (6, 6), past
\* the threshold on both axes, and starts the bounce with axis x.
C10_Witness ==
  /\ ev.op = "updateFromLobby" /\ ev.applied
  /\ "b1" \in ev.idleBombs /\ "b1" \in DOMAIN bombSprites
  /\ bombSprites["b1"].data.isFlying
  /\ bombSprites["b1"].prevTargetX = 20 /\ bombSprites["b1"].prevTargetY = 20
  /\ bombSprites["b1"].targetX = 260 /\ bombSprites["b1"].targetY = 260
  /\ bombSprites["b1"].wrapBouncePhase = wrapStart
  /\ bombSprites["b1"].wrapBounceDir = "x"

\* C11: along the snapshot sequence waiting with 1 player, waiting with 2
\* players, countdown 3000, countdown 0, playing, the HUD after each
\* reconciliation shows: the waiting status with 1/2, then with 2/2, the
\* countdown text 3 in yellow, GO! in green, then in playing the time or
\* alive-count status with a GO! whose alpha falls with the time since it
\* appeared and that is hidden once 500 ms have passed; a countdown of 2 is
\* shown in orange and a countdown of 1 in red.
C11_HudSequence ==
  (ev.op = "updateFromLobby" /\ ev.applied) =>
    LET lobby == Get(currentLobby)
        secs == CeilDiv(countdownOf(lobby), 1000)
        sinceGo == now - ev.goAt
    IN /\ ev.seq = 1 =>
            statusText = <<"Waiting for players (", 1, "/", 2, " min)...">>
       /\ ev.seq = 2 =>
            statusText = <<"Waiting for players (", 2, "/", 2, " min)...">>
       /\ ev.seq = 3 =>
            /\ countdownText.visible
            /\ countdownText.text = <<3>>
            /\ countdownText.fill = "ffff44"
       /\ ev.seq = 4 =>
            /\ countdownText.visible
            /\ countdownText.text = <<"GO!">>
            /\ countdownText.fill = "44ff44"
       /\ ev.seq = 5 =>
            /\ statusText[1] \in {"Players alive: ", "Time: "}
            /\ IF sinceGo < 500
                 THEN /\ countdownText.visible
                      /\ countdownText.text = <<"GO!">>
                      /\ countdownText.fill = "44ff44"
                      /\ countdownText.alpha = 1000 - 2 * sinceGo
                 ELSE ~countdownText.visible
       /\ (lobby.state = COUNTDOWN /\ secs = 2) =>
            /\ countdownText.visible
            /\ countdownText.text = <<2>>
            /\ countdownText.fill = "ffaa44"
       /\ (lobby.state = COUNTDOWN /\ secs = 1) =>
            /\ countdownText.visible
            /\ countdownText.text = <<1>>
            /\ countdownText.fill = "ff4444"

\* The whole sequence has been reconciled and the GO! of its last snapshot
\* is partly faded.
C11_Witness ==
  /\ ev.op = "updateFromLobby" /\ ev.applied
  /\ ev.seq = 5
  /\ countdownText.visible
  /\ countdownText.text = <<"GO!">>
  /\ countdownText.alpha > 0 /\ countdownText.alpha < 1000
  /\ statusText = <<"Players alive: ", 2>>

C13_DestroySafe ==
  ev.op = "destroy" =>
    /\ playerSprites = EmptyMap
    /\ bombSprites = EmptyMap
    /\ explosionSprites = EmptyMap
    /\ keysHeld = {}
    /\ ~initialized
    /\ ~ev.threw

\* C14: init() on a Game that is already initialized creates no render
\* surface, scene container or HUD element, registers no frame-loop
\* callback and leaves entity, camera and every other state unchanged.
C14_InitIdempotent ==
  [][(ev'.op = "init" /\ initialized) =>
       /\ UNCHANGED <<pendingInit, surface, tickers, appDestroyed, initialized,
                      callbacks, entityVars, cameraVars, lobbyVars, hudVars,
                      inputVars, shakeIntensity, globalTime>>
       /\ ~ev'.applied]_vars

\* init() is called on an initialized Game that owns entities.
C14_Witness ==
  /\ ev.op = "init" /\ ~ev.applied
  /\ initialized /\ tickers = 1 /\ pendingInit = <<>>
  /\ DOMAIN playerSprites = {"p1"}

\* C15: init() on a container of zero width or zero height logs an error,
\* and, unless destroy() ran before it resumed, completes without an
\* exception with initialized = true and a render surface of the
\* container's size with 800 in place of a zero width and 600 in place of a
\* zero height.
C15_ZeroAreaInit ==
  /\ (ev.op = "init" /\ ev.applied /\ (clientWidth = 0 \/ clientHeight = 0)) =>
       ev.logged
  /\ (ev.op = "initResume" /\ ~appDestroyed) =>
       /\ ~ev.threw
       /\ initialized
       /\ Present(ev.container) /\ Present(surface)
       /\ Get(surface).width =
            IF Get(ev.container).width = 0 THEN 800 ELSE Get(ev.container).width
       /\ Get(surface).height =
            IF Get(ev.container).height = 0 THEN 600 ELSE Get(ev.container).height

\* init() has completed on a container of zero width and non-zero height.
C15_Witness ==
  /\ ev.op = "initResume" /\ ev.applied /\ initialized
  /\ clientWidth = 0 /\ clientHeight # 0
  /\ Get(ev.container).width = 0
  /\ Get(surface).width = 800 /\ Get(surface).height = clientHeight

\* C16: a snapshot whose game data, tiles list, bombs list or explosions
\* list is missing is reconciled without error; every sub-collection
\* (tile grid, bombSprites, explosionSprites) whose list is missing is left
\* exactly as it was, and so is the shake when no explosions list came;
\* the players and the HUD are reconciled all the same.
C16_MissingListsKept ==
  [][(ev'.op = "updateFromLobby" /\ initialized) =>
       LET lobby == Get(currentLobby')
           missing(field) ==
             ~Present(lobby.gameData) \/ ~Present(Get(lobby.gameData)[field])
       IN /\ ev'.applied /\ ~ev'.threw
          /\ missing("tiles") => tiles' = tiles
          /\ missing("bombs") => bombSprites' = bombSprites
          /\ missing("explosions") =>
               /\ explosionSprites' = explosionSprites
               /\ shakeIntensity' = shakeIntensity
          /\ DOMAIN playerSprites' =
               {lobby.players[i].socketId : i \in 1..Len(lobby.players)}
          /\ statusText' =
               IF lobby.state = WAITING
                 THEN <<"Waiting for players (", Len(lobby.players), "/", 2,
                        " min)...">>
                 ELSE <<"Players alive: ", Len(lobby.players)>>]_vars

\* A snapshot without game data has been reconciled by a Game that owns a
\* bomb, an explosion and tiles, and it brought a player the Game did not
\* have.
C16_Witness ==
  /\ ev.op = "updateFromLobby" /\ ev.applied
  /\ ~Present(Get(currentLobby).gameData)
  /\ DOMAIN bombSprites = {"b1"}
  /\ DOMAIN explosionSprites = {"e1"}
  /\ tiles = <<1, 1>>
  /\ ev.createdPlayers = {"p1"}
  /\ shakeIntensity > 0
  /\ statusText = <<"Players alive: ", 1>>

\* C17: updateTile(x, y, t) with x outside [0, GRID_WIDTH) or y outside
\* [0, GRID_HEIGHT) changes no cell of the tile array; with (x, y) inside
\* the grid it changes no cell other than the one at row y, column x.
C17_TileBounds ==
  ev.op = "updateTile" =>
    LET x == ev.args[1]
        y == ev.args[2]
    IN IF x < 0 \/ x >= GRID_WIDTH \/ y < 0 \/ y >= GRID_HEIGHT
         THEN ev.changedCells = {}
         ELSE ev.changedCells \subseteq {<<x, y>>}

\* C18: two runs with the same snapshots at the same wall-clock times that
\* differ in their frame ticks only agree, whenever both have just ticked
\* at the same wall-clock time, on the wrap-bounce phase and the
\* flying-bounce clock of every bomb and on the shake intensity.
C18_FrameRateIndependent ==
  (Present(twin) /\ globalTime = now /\ Get(twin).globalTime = now) =>
    /\ shakeIntensity = Get(twin).shakeIntensity
    /\ \A id \in DOMAIN bombSprites \cap DOMAIN Get(twin).bombSprites :
         /\ bombSprites[id].wrapBouncePhase =
              Get(twin).bombSprites[id].wrapBouncePhase
         /\ bombSprites[id].bounceTime = Get(twin).bombSprites[id].bounceTime

\* C19: a frame tick dispatches onMove only while a movement key is in the
\* held set and the latest reconciled snapshot is in the playing phase:
\* once key-up has come for every held key, or a snapshot of another phase
\* has been reconciled, no frame tick dispatches a move.
C19_IdleNoDispatch ==
  (ev.op = "update" /\ Present(ev.out.move)) =>
    /\ keysHeld # {}
    /\ Present(heldDirection(keysHeld))
    /\ Present(currentLobby) /\ Get(currentLobby).state = PLAYING

\* A frame tick in the playing phase, a repeat interval after the latest
\* dispatch, that dispatches nothing because the key has been released.
C19_Witness ==
  /\ ev.op = "update" /\ ev.out.move = <<>>
  /\ keysHeld = {}
  /\ Present(currentLobby) /\ Get(currentLobby).state = PLAYING
  /\ lastMoveTime >= StartTime
  /\ now - lastMoveTime >= 120

\* C20: every onMove a frame tick dispatches carries, for each movement
\* key that is still held, the direction that was dispatched on that
\* key's key-down, whatever other keys were pressed since.
C20_RepeatSameIntent ==
  (ev.op = "update" /\ Present(ev.out.move)) =>
    \A code \in DOMAIN hold.intent :
      code \in keysHeld => hold.intent[code] = Get(ev.out.move)

\* C21: in the playing phase every key-down event of Space calls onBomb
\* exactly once and every key-down event of KeyE calls onThrow exactly once,
\* a key-down of another key calls neither, and no frame tick calls onBomb
\* or onThrow, whatever keys are in the held set.
C21_OncePerKeyDown ==
  /\ (ev.op = "keyDown" /\ phasePlaying) =>
       /\ ev.out.bomb = IF ev.args = <<"Space">> THEN 1 ELSE 0
       /\ ev.out.throw = IF ev.args = <<"KeyE">> THEN 1 ELSE 0
  /\ ev.op = "update" => ev.out.bomb = 0 /\ ev.out.throw = 0

\* A key-down of Space in the playing phase, with KeyE in the held set
\* since more than a repeat interval: one onBomb and no onThrow.
C21_Witness ==
  /\ ev.op = "keyDown" /\ phasePlaying
  /\ ev.args = <<"Space">>
  /\ {"Space", "KeyE", "ArrowUp"} \subseteq keysHeld
  /\ now >= StartTime + moveRepeatDelay
  /\ ev.out.bomb = 1 /\ ev.out.throw = 0

\* C22: on every frame tick, every player whose latest snapshot data has
\* alive = false, a player first observed with alive = false included, has
\* the death progress clamp((now - t) / 1500, 0, 1) for the time t at which
\* it was first observed dead: a value that never decreases, is 1 once
\* 1500 ms have passed and stays 1 until a reconciliation removes the
\* player.
C22_DeathProgress ==
  ev.op = "update" =>
    \A id \in DOMAIN playerSprites :
      ~playerSprites[id].data.alive =>
        playerSprites[id].deathProgress =
          clamp(0, 1000, ((now - ev.deadSince[id]) * 1000) \div deathDuration)

\* C23: after every reconciliation, every owned player and every owned bomb
\* stores the snapshot item of its id as its data and has the centre of
\* that item's cell as its interpolation target, and every owned explosion
\* has the grid coordinates of the snapshot item of its id and is placed at
\* the centre of that cell.
C23_UpdatedInPlace ==
  (ev.op = "updateFromLobby" /\ ev.applied) =>
    LET lobby == Get(currentLobby)
        bombs == listOf(lobby, "bombs")
        explosions == listOf(lobby, "explosions")
    IN /\ \A item \in Range(lobby.players) :
            LET sprite == playerSprites[item.socketId]
                pos == gridToPixel(item.gridX, item.gridY)
            IN /\ sprite.data = item
               /\ sprite.targetX = pos.x /\ sprite.targetY = pos.y
       /\ Present(bombs) =>
            \A item \in Range(Get(bombs)) :
              LET sprite == bombSprites[item.id]
                  pos == gridToPixel(item.gridX, item.gridY)
              IN /\ sprite.data = item
                 /\ sprite.targetX = pos.x /\ sprite.targetY = pos.y
       /\ Present(explosions) =>
            \A item \in Range(Get(explosions)) :
              LET sprite == explosionSprites[item.id]
                  pos == gridToPixel(item.gridX, item.gridY)
              IN /\ sprite.gridX = item.gridX /\ sprite.gridY = item.gridY
                 /\ sprite.x = pos.x /\ sprite.y = pos.y

\* C24: a frame tick creates and removes no entity: playerSprites,
\* bombSprites and explosionSprites have the same keys after update() as
\* before it, also when an explosion is older than EXPLOSION_DURATION.
C24_FrameKeepsEntities ==
  [][ev'.op = "update" =>
       /\ DOMAIN playerSprites' = DOMAIN playerSprites
       /\ DOMAIN bombSprites' = DOMAIN bombSprites
       /\ DOMAIN explosionSprites' = DOMAIN explosionSprites]_vars

\* A frame tick of a Game that owns players, a bomb and an explosion older
\* than EXPLOSION_DURATION.
C24_Witness ==
  /\ ev.op = "update"
  /\ DOMAIN playerSprites = {"p1", "p2"}
  /\ DOMAIN bombSprites = {"b1"}
  /\ "e1" \in DOMAIN explosionSprites
  /\ now - explosionSprites["e1"].createdAt > EXPLOSION_DURATION

\* C25: a frame tick that finds a bomb in the wrap bounce (0 < phase < 2)
\* does not ease its position: the tick that takes the phase from below 1
\* to at least 1 sets the position to the bomb's target, every other tick
\* of the bounce leaves the position as it is; a tick that finds the phase
\* at 0 eases the x position toward the target.
C25_WrapSuspendsEasing ==
  [][ev'.op = "update" =>
       \A id \in DOMAIN bombSprites :
         LET before == bombSprites[id]
             after == bombSprites'[id]
             speed == IF before.data.isFlying THEN 35
                      ELSE IF before.data.isMoving THEN 30 ELSE 25
         IN IF before.wrapBouncePhase > 0 /\ before.wrapBouncePhase < 200
              THEN IF before.wrapBouncePhase < 100 /\ after.wrapBouncePhase >= 100
                     THEN after.x = before.targetX /\ after.y = before.targetY
                     ELSE after.x = before.x /\ after.y = before.y
              ELSE after.x = lerp(before.x, before.targetX, speed)]_vars

\* The frame tick that takes the phase of a bomb flown from cell (0, 0) to
\* cell (6, 0) past 1: the bomb is at its new target.
C25_Witness ==
  /\ ev.op = "update"
  /\ "b1" \in DOMAIN bombSprites /\ "b1" \notin ev.idleBombs
  /\ bombSprites["b1"].wrapBouncePhase >= 100
  /\ bombSprites["b1"].wrapBouncePhase < 100 + wrapStep
  /\ bombSprites["b1"].prevTargetX = 20
  /\ bombSprites["b1"].targetX = 260
  /\ bombSprites["b1"].x = 260

\* C26: on every frame tick a bomb whose data has isFlying = false is drawn
\* with bounce offset 0, in a wrap bounce or not, and outside a wrap bounce
\* its bounce clock is set to 0; a bomb whose data has isFlying = true has
\* its bounce clock advanced by 16, in a wrap bounce or not.
C26_BounceFollowsFlag ==
  [][ev'.op = "update" =>
       \A id \in DOMAIN bombSprites :
         LET before == bombSprites[id]
             after == bombSprites'[id]
             inWrap == before.wrapBouncePhase > 0 /\ before.wrapBouncePhase < 200
         IN IF before.data.isFlying
              THEN after.bounceTime = (before.bounceTime + 16) % bounceWrap
              ELSE /\ after.bounceOffset = 0
                   /\ ~inWrap => after.bounceTime = 0]_vars

\* A frame tick of a wrap bounce whose bomb has landed: the bounce clock
\* is where the flight left it and the offset is 0.
C26_Witness ==
  /\ ev.op = "update"
  /\ "b1" \in DOMAIN bombSprites /\ "b1" \notin ev.idleBombs
  /\ ~bombSprites["b1"].data.isFlying
  /\ bombSprites["b1"].wrapBouncePhase > 0
  /\ bombSprites["b1"].bounceTime > 0
  /\ bombSprites["b1"].bounceOffset = 0

\* C27: after every reconciliation, every owned bomb, a bomb created by
\* that reconciliation included, has the urgency 1 - timer / BOMB_TIMER of
\* the snapshot item of its id, a value in [0, 1].
C27_Urgency ==
  (ev.op = "updateFromLobby" /\ ev.applied
     /\ Present(listOf(Get(currentLobby), "bombs"))) =>
    \A item \in Range(Get(listOf(Get(currentLobby), "bombs"))) :
      /\ bombSprites[item.id].pulsePhase = 1000 - (item.timer * 1000) \div BOMB_TIMER
      /\ bombSprites[item.id].pulsePhase >= 0
      /\ bombSprites[item.id].pulsePhase <= 1000

\* C28: a reconciliation of a countdown snapshot sets countdownAnimStart to
\* the current time when its countdown value differs from the value of the
\* previous countdown snapshot of the match or when it is the first
\* countdown snapshot of the match, and leaves it alone otherwise; a frame
\* tick never changes it.
C28_AnimRestart ==
  [][/\ (ev'.op = "updateFromLobby" /\ ev'.applied
          /\ Get(currentLobby').state = COUNTDOWN) =>
          IF ev.shown # ev'.shown
            THEN countdownAnimStart' = now
            ELSE countdownAnimStart' = countdownAnimStart
     /\ ev'.op = "update" => countdownAnimStart' = countdownAnimStart]_vars

\* C29: after the start sequence (countdown 0 showing GO!, then playing), a
\* frame tick that comes 500 ms or more after the countdown reached 0 finds
\* or leaves the countdown text hidden, whether or not a snapshot has
\* arrived since the first playing one.
C29_GoFlashEnds ==
  (ev.op = "update" /\ ev.seq = 5 /\ phasePlaying
     /\ now - ev.goAt >= goFlashDuration) =>
    ~countdownText.visible

\* C30: a shake ends: whenever shakeIntensity is above 0, a later state has
\* it at 0, unless a reconciliation creates a new explosion or destroy()
\* stops the frame ticks first.
C30_ShakeEnds ==
  (shakeIntensity > 0) ~>
    (shakeIntensity = 0
       \/ (ev.op = "updateFromLobby" /\ ev.createdExplosions # {})
       \/ appDestroyed)

\* C31: while mySocketId is null or names no owned player, reconciliations
\* and frame ticks raise no error, a reconciliation that creates an
\* explosion leaves shakeIntensity as it was, and the camera target of a
\* frame tick is 0 on every axis on which the world exceeds the viewport.
C31_NoLocalPlayer ==
  (mySocketId = NoId \/ mySocketId \notin DOMAIN playerSprites) =>
    /\ ev.op \in {"update", "updateFromLobby"} => ~ev.threw
    /\ (ev.op = "updateFromLobby" /\ ev.applied) => shakeIntensity = ev.prevShake
    /\ (ev.op = "update" /\ Present(ev.camTarget)) =>
         /\ worldWidth > containerWidth => Get(ev.camTarget).x = 0
         /\ worldHeight > containerHeight => Get(ev.camTarget).y = 0

\* A frame tick of a Game whose local id names no owned player, while a
\* player stands in the middle of a world larger than the viewport and an
\* explosion was created in that player's cell.
C31_Witness ==
  /\ ev.op = "update" /\ Present(ev.camTarget)
  /\ mySocketId = "p2" /\ DOMAIN playerSprites = {"p1"}
  /\ playerSprites["p1"].x = gridToPixel(9, 7).x
  /\ "e1" \in DOMAIN explosionSprites
  /\ worldWidth > containerWidth /\ worldHeight > containerHeight
  /\ shakeIntensity = 0
  /\ Get(ev.camTarget) = [x |-> 0, y |-> 0]

\* C32: the snapshot given to the latest updateFromLobby keeps the values
\* it was passed in with: no frame tick, key event, updateTile call or
\* other operation that is not a reconciliation changes its players,
\* tiles, bombs or explosions.
C32_SnapshotUntouched ==
  [][~(ev'.op = "updateFromLobby" /\ ev'.applied) =>
       currentLobby' = currentLobby]_vars


\* C33: when destroy() was called while an init() call was awaiting the
\* render surface, the resumption of that init() registers no frame-loop
\* callback and leaves initialized false, and every later snapshot and
\* frame tick is a no-op.
C33_DestroyCutsInit ==
  [][/\ (ev'.op = "initResume" /\ ev.cut > 0) =>
          (~initialized' /\ tickers' = tickers)
     /\ (ev'.op \in {"updateFromLobby", "update"} /\ ev.op = "initResume"
            /\ ev.threw) => ~ev'.applied]_vars


\* C34: however the init() calls on one Game interleave, the setup after
\* the await runs at most once: at most one frame-loop callback is
\* registered on the ticker (each run of the setup registers one, next to
\* its scene containers and HUD texts).
C34_SetupOnce == tickers <= 1


\* C35: with the React wrapper, a snapshot handed to the Game is eventually
\* the one the scene shows (the current snapshot of the Game), unless a
\* later snapshot replaces it or the Game is destroyed first; this holds
\* also for a snapshot that came while init() was awaiting the render
\* surface.
C35_SnapshotShown ==
  \A lobby \in WrapperLobbies :
    (ev.op = "updateFromLobby" /\ ev.args = <<lobby>>)
      ~> \/ currentLobby = <<lobby>>
         \/ appDestroyed
         \/ ev.op = "updateFromLobby" /\ ev.args # <<lobby>>


\* C36: after destroy() has been called on a Game (the last operation was
\* destroy(), the application is torn down, or an init() call it cut is
\* yet to resume), no key-down and no frame tick calls onMove, onBomb,
\* onThrow or onStart.
C36_SilentAfterDestroy ==
  [][((ev.op = "destroy" \/ appDestroyed \/ ev.cut > 0)
        /\ ev'.op \in {"keyDown", "update"}) => ev'.out = NoOut]_vars


\* C37: on every frame tick the camera moves by its own easing towards its
\* target only, whatever the shake; the world transform ends the tick
\* within half the shake intensity (as it was at the start of the tick)
\* of the camera, and exactly at the camera when that intensity was at
\* most 0.5.
C37_ShakeNotAccumulated ==
  [][ev'.op = "update" =>
       LET target == Get(ev'.camTarget)
       IN /\ cameraX' = lerp(cameraX, target.x, 10)
          /\ cameraY' = lerp(cameraY, target.y, 10)
          /\ (worldX' - cameraX') * 200 <= shakeIntensity
          /\ (cameraX' - worldX') * 200 <= shakeIntensity
          /\ (worldY' - cameraY') * 200 <= shakeIntensity
          /\ (cameraY' - worldY') * 200 <= shakeIntensity
          /\ shakeIntensity <= shakeEpsilon =>
                (worldX' = cameraX' /\ worldY' = cameraY')]_vars

\* A frame tick has left the world displaced from a camera that is away
\* from the origin and has not reached its target, with the shake still
\* above its threshold.
C37_Witness ==
  /\ ev.op = "update"
  /\ shakeIntensity > shakeEpsilon
  /\ worldX # cameraX /\ worldY # cameraY
  /\ cameraX < 0 /\ cameraX # Get(ev.camTarget).x


\* C38: a reconciliation leaves the phase and the axis tag of every bomb
\* whose wrap bounce is in progress (phase > 0) as they are, and a frame
\* tick either raises that phase and keeps the tag, or ends the bounce
\* (phase 0, no tag).
C38_BounceNotRestarted ==
  [][/\ (ev'.op = "updateFromLobby" /\ ev'.applied) =>
          \A id \in DOMAIN bombSprites \cap DOMAIN bombSprites' :
            bombSprites[id].wrapBouncePhase > 0 =>
              /\ bombSprites'[id].wrapBouncePhase = bombSprites[id].wrapBouncePhase
              /\ bombSprites'[id].wrapBounceDir = bombSprites[id].wrapBounceDir
     /\ ev'.op = "update" =>
          \A id \in DOMAIN bombSprites :
            bombSprites[id].wrapBouncePhase > 0 =>
              \/ /\ bombSprites'[id].wrapBouncePhase > bombSprites[id].wrapBouncePhase
                 /\ bombSprites'[id].wrapBounceDir = bombSprites[id].wrapBounceDir
              \/ /\ bombSprites'[id].wrapBouncePhase = 0
                 /\ bombSprites'[id].wrapBounceDir = NoDir]_vars

\* A snapshot has moved a flying bomb more than five tiles down while its
\* bounce off the side border was under way: the bounce goes on along x.
C38_Witness ==
  /\ ev.op = "updateFromLobby" /\ ev.applied
  /\ "b1" \in DOMAIN bombSprites /\ "b1" \notin ev.idleBombs
  /\ "b1" \notin ev.createdBombs
  /\ bombSprites["b1"].data.isFlying
  /\ bombSprites["b1"].wrapBouncePhase > wrapStart
  /\ bombSprites["b1"].wrapBounceDir = "x"
  /\ bombSprites["b1"].targetX = bombSprites["b1"].prevTargetX
  /\ Abs(bombSprites["b1"].targetY - bombSprites["b1"].prevTargetY) > wrapThreshold


\* C39: whenever the current snapshot is in the countdown or ended phase
\* and the countdown text is visible, its alpha is 1.
C39_CountdownOpaque ==
  (/\ Present(currentLobby)
   /\ Get(currentLobby).state \in {COUNTDOWN, ENDED}
   /\ countdownText.visible) => countdownText.alpha = 1000

=============================================================================
